---- MODULE Spec2Model ----
(***************************************************************************)
(* The agent tool-calling core of jarvis-cli: the ToolRegistry (register,  *)
(* lookup, validate, dispatch, schema export), BaseTool.validateParameters,*)
(* the ConversationMemory and the GeminiClient dispatch loop.              *)
(***************************************************************************)
EXTENDS Integers, Sequences, FiniteSets, TLC

(***************************************************************************)
(* Bounds of the model.                                                    *)
(***************************************************************************)
\* registerTool calls followed since construction or the last clearTools
MaxRegs == 2
\* the largest cap a ConversationMemory is constructed with
MaxCap == 2
\* messages appended to a ConversationMemory since its construction
MaxAppends == 5
\* function calls in one model reply
MaxCalls == 2
\* turns of one session
MaxTurns == 1
\* chunks of one streamed reply
MaxChunks == 2
\* requests the interactive loop hands to the agent
MaxInputs == 2
\* the fetches one makeTasksRequest makes before the model stops following it
MaxFetches == 3

(***************************************************************************)
(* JavaScript values.  A value is a record [kind, v]; kind is the runtime  *)
(* class of the value and v its printed form.                              *)
(***************************************************************************)
UNDEFINED == "<undefined>"
NULL == "<null>"

JsStr(s) == [kind |-> "string", v |-> s]
JsNum(s) == [kind |-> "number", v |-> s]
JsBool(s) == [kind |-> "boolean", v |-> s]
JsArr(s) == [kind |-> "array", v |-> s]
JsNull == [kind |-> "null", v |-> "null"]
JsUndef == [kind |-> "undefined", v |-> "undefined"]

\* typeof value
JsTypeof(value) ==
  CASE value.kind = "string" -> "string"
    [] value.kind = "number" -> "number"
    [] value.kind = "boolean" -> "boolean"
    [] value.kind = "undefined" -> "undefined"
    [] OTHER -> "object"

\* Array.isArray(value)
IsArray(value) == value.kind = "array"

\* the values a function call's argument can carry
ArgValues ==
  { JsStr("iso"), JsStr("track"), JsNum("5"), JsBool("true"), JsArr("[]"),
    JsNull, JsUndef }

(***************************************************************************)
(* An arguments value handed to executeTool: a mapping of keys to values   *)
(* (kind "object", the mapping in m), or one of the non-mapping values a   *)
(* model reply can carry in args (absent, null, a primitive string).       *)
(***************************************************************************)
EmptyMap == [k \in {} |-> JsUndef]
ArgsObject(m) == [kind |-> "object", m |-> m, v |-> "[object Object]"]
ArgsUndefined == [kind |-> "undefined", m |-> EmptyMap, v |-> "undefined"]
ArgsNull == [kind |-> "null", m |-> EmptyMap, v |-> "null"]
ArgsString == [kind |-> "string", m |-> EmptyMap, v |-> "abc"]
NonMappingArgs == { ArgsUndefined, ArgsNull, ArgsString }

\* the `in` operator is only defined on objects; on anything else it throws
InThrows(parameters) == parameters.kind # "object"
\* param.name in parameters
HasKey(parameters, key) == key \in DOMAIN parameters.m

(***************************************************************************)
(* ToolParameter and ToolDefinition (base.ts).  enum is optional: hasEnum  *)
(* tells whether the declaration carries one.                              *)
(***************************************************************************)
Param(n, t, d, r) ==
  [name |-> n, type |-> t, description |-> d, required |-> r,
   hasEnum |-> FALSE, enum |-> <<>>]
ParamEnum(n, t, d, r, e) ==
  [name |-> n, type |-> t, description |-> d, required |-> r,
   hasEnum |-> TRUE, enum |-> e]

\* the tool instances that can be handed to registerTool; 1 and 2 carry the
\* same name, so that registering both overwrites
ToolDefs ==
  <<
    [name |-> "read_file", description |-> "Read the contents of a text file",
     category |-> "file",
     parameters |-> << Param("filepath", "string", "Path to the file to read", TRUE) >>],
    [name |-> "read_file", description |-> "Read selected lines of a text file",
     category |-> "file",
     parameters |-> << Param("filepath", "string", "Path to the file to read", TRUE),
                       Param("lines", "array", "Line numbers to return", FALSE) >>],
    [name |-> "get_current_time", description |-> "Get the current date and time",
     category |-> "system",
     parameters |-> << ParamEnum("format", "string", "Time format preference", FALSE,
                                 <<"iso", "local", "timestamp">>) >>],
    [name |-> "search_music", description |-> "Search for music on Spotify",
     category |-> "spotify",
     parameters |-> << Param("query", "string", "Search query", TRUE),
                       ParamEnum("type", "string", "Type of search", FALSE,
                                 <<"track", "artist", "album", "playlist">>) >>],
    [name |-> "write_file", description |-> "Write content to a text file",
     category |-> "file",
     parameters |-> << Param("filepath", "string", "Path to the file to write", TRUE),
                       Param("content", "string", "Content to write to the file", TRUE) >>],
    [name |-> "set_volume", description |-> "Set the playback volume",
     category |-> "spotify",
     parameters |-> << Param("volume", "number", "Volume level", TRUE) >>],
    [name |-> "git_commit", description |-> "Commit staged changes",
     category |-> "system",
     parameters |-> << Param("message", "string", "Commit message", FALSE),
                       Param("stage_all", "boolean", "Stage all changes first", FALSE) >>]
  >>

ToolIds == DOMAIN ToolDefs
NoTool == 0
ToolNames == { ToolDefs[t].name : t \in ToolIds }
\* a name the model can emit that no tool carries
UnknownName == "nonexistent_tool"
CallNames == ToolNames \cup { UnknownName }

(***************************************************************************)
(* BaseTool.validateParameters (base.ts).  The result is a record: threw   *)
(* tells that the `in` operator raised a TypeError, error is the returned  *)
(* string (NULL when validation passed), examined the number of declared   *)
(* parameters the loop visited.                                            *)
(***************************************************************************)
RECURSIVE Join(_, _)
\* Array.prototype.join
Join(seq, sep) ==
  IF seq = <<>> THEN ""
  ELSE IF Len(seq) = 1 THEN seq[1]
  ELSE seq[1] \o sep \o Join(Tail(seq), sep)

\* an includes that finds everything
Includes_any(seq, x) == TRUE

\* Array.prototype.includes
Includes(seq, x) == \E i \in DOMAIN seq : seq[i] = x

\* the message of the TypeError raised by `key in parameters`
InTypeError(key, parameters) ==
  "Cannot use 'in' operator to search for '" \o key \o "' in " \o parameters.v

\* the enum check alone, the type checks left out
CheckPresent_noTypes(param, value) ==
  IF param.hasEnum /\ ~(value.kind = "string" /\ Includes(param.enum, value.v))
    THEN "Parameter " \o param.name \o " must be one of: " \o Join(param.enum, ", ")
  ELSE NULL

\* the enum check placed before the type checks
CheckPresent_enumFirst(param, value) ==
  IF param.hasEnum /\ ~(value.kind = "string" /\ Includes(param.enum, value.v))
    THEN "Parameter " \o param.name \o " must be one of: " \o Join(param.enum, ", ")
  ELSE IF param.type = "string" /\ JsTypeof(value) # "string"
    THEN "Parameter " \o param.name \o " must be a string"
  ELSE IF param.type = "number" /\ JsTypeof(value) # "number"
    THEN "Parameter " \o param.name \o " must be a number"
  ELSE IF param.type = "boolean" /\ JsTypeof(value) # "boolean"
    THEN "Parameter " \o param.name \o " must be a boolean"
  ELSE IF param.type = "array" /\ ~IsArray(value)
    THEN "Parameter " \o param.name \o " must be an array"
  ELSE NULL

\* the checks of one loop iteration on a parameter that is present
CheckPresent(param, value) ==
  IF param.type = "string" /\ JsTypeof(value) # "string"
    THEN "Parameter " \o param.name \o " must be a string"
  ELSE IF param.type = "number" /\ JsTypeof(value) # "number"
    THEN "Parameter " \o param.name \o " must be a number"
  ELSE IF param.type = "boolean" /\ JsTypeof(value) # "boolean"
    THEN "Parameter " \o param.name \o " must be a boolean"
  ELSE IF param.type = "array" /\ ~IsArray(value)
    THEN "Parameter " \o param.name \o " must be an array"
  ELSE IF param.hasEnum /\ ~(value.kind = "string" /\ Includes(param.enum, value.v))
    THEN "Parameter " \o param.name \o " must be one of: " \o Join(param.enum, ", ")
  ELSE NULL

\* an iteration without the required check
CheckParam_noRequired(param, parameters) ==
  IF HasKey(parameters, param.name)
    THEN CheckPresent(param, parameters.m[param.name])
  ELSE NULL

\* one iteration of the loop over definition.parameters
CheckParam(param, parameters) ==
  IF param.required /\ ~HasKey(parameters, param.name)
    THEN "Missing required parameter: " \o param.name
  ELSE IF HasKey(parameters, param.name)
    THEN CheckPresent(param, parameters.m[param.name])
  ELSE NULL

RECURSIVE validateFrom(_, _, _)
validateFrom(params, parameters, i) ==
  IF i > Len(params)
    THEN [threw |-> FALSE, error |-> NULL, examined |-> Len(params)]
  ELSE IF InThrows(parameters)
    THEN [threw |-> TRUE, error |-> InTypeError(params[i].name, parameters), examined |-> i]
  ELSE LET e == CheckParam(params[i], parameters) IN
    IF e # NULL THEN [threw |-> FALSE, error |-> e, examined |-> i]
    ELSE validateFrom(params, parameters, i + 1)

validateParameters(definition, parameters) ==
  validateFrom(definition.parameters, parameters, 1)

(***************************************************************************)
(* ToolRegistry.  tools is the Map<string, BaseTool> in its iteration      *)
(* order: a sequence of tool instances with pairwise distinct names.       *)
(***************************************************************************)
\* this.tools.has(name)
HasTool(map, name) == \E i \in DOMAIN map : ToolDefs[map[i]].name = name

\* a set that keeps the entry already stored under the name
MapSet_keepFirst(map, tool) ==
  IF HasTool(map, ToolDefs[tool].name) THEN map ELSE Append(map, tool)

\* this.tools.set(name, tool): an existing key keeps its position
MapSet(map, tool) ==
  IF HasTool(map, ToolDefs[tool].name)
    THEN [i \in DOMAIN map |->
            IF ToolDefs[map[i]].name = ToolDefs[tool].name THEN tool ELSE map[i]]
    ELSE Append(map, tool)

\* a lookup that falls back to the first entry
getTool_fallback(map, name) ==
  IF HasTool(map, name)
    THEN map[CHOOSE i \in DOMAIN map : ToolDefs[map[i]].name = name]
    ELSE IF map # <<>> THEN map[1] ELSE NoTool

\* getTool(name): the instance or NoTool (undefined)
getTool(map, name) ==
  IF HasTool(map, name)
    THEN map[CHOOSE i \in DOMAIN map : ToolDefs[map[i]].name = name]
    ELSE NoTool

\* getAvailableTools()
getAvailableTools(map) == [i \in DOMAIN map |-> ToolDefs[map[i]]]

\* getToolCount()
getToolCount(map) == Len(map)

\* a listing by category that does not filter
getToolsByCategory_all(map, category) == getAvailableTools(map)

\* getToolsByCategory(category)
getToolsByCategory(map, category) ==
  LET InCat(d) == d.category = category IN SelectSeq(getAvailableTools(map), InCat)

\* the categories a caller can ask for: those of the tools, and one no tool
\* carries
Categories == { ToolDefs[t].category : t \in ToolIds } \cup { "calendar" }

\* the methods that read the registry, with the arguments a caller passes
Queries ==
  { [op |-> "getTool", arg |-> name] : name \in CallNames }
    \cup { [op |-> "getToolsByCategory", arg |-> category] : category \in Categories }
    \cup { [op |-> op, arg |-> ""] :
              op \in { "getAvailableTools", "getFunctionDefinitions", "getToolCount" } }

\* no lookup or listing made yet
NoQuery == [op |-> "none", arg |-> "", tool |-> NoTool, list |-> <<>>, count |-> 0]

(***************************************************************************)
(* ToolResult (base.ts) and what a tool's execute can do.  execute is      *)
(* abstract: an implementation returns a result or raises.                 *)
(***************************************************************************)
Result(s, d, m, e) == [success |-> s, data |-> d, message |-> m, error |-> e]
\* the data of a result: absent, a string, or an object with a formatted field
NoData == [kind |-> "undefined", v |-> "undefined", formatted |-> "undefined"]
DataStr(text) == [kind |-> "string", v |-> text, formatted |-> "undefined"]
DataObj(formatted) == [kind |-> "object", v |-> "[object Object]", formatted |-> formatted]
NoResult == Result(FALSE, NoData, NULL, NULL)
\* a failure that leaves the error out
Failure_noError(error) == Result(FALSE, NoData, UNDEFINED, UNDEFINED)
\* { success: false, error }
Failure(error) == Result(FALSE, NoData, UNDEFINED, error)

Returns(r) == [kind |-> "return", result |-> r, isError |-> FALSE, message |-> ""]
\* throw new Error(msg)
ThrowsError(msg) == [kind |-> "throw", result |-> NoResult, isError |-> TRUE, message |-> msg]
\* throw of a value that is not an Error instance
ThrowsValue(v) == [kind |-> "throw", result |-> NoResult, isError |-> FALSE, message |-> v]

ExecOutcomes ==
  { Returns(Result(TRUE, DataObj("10:30 AM"), "Current time: 10:30 AM", UNDEFINED)),
    Returns(Result(TRUE, DataStr("file text"), "done", UNDEFINED)),
    Returns(Result(TRUE, NoData, "done", UNDEFINED)),
    Returns(Failure("Access denied")),
    ThrowsError("boom"),
    ThrowsError(""),
    ThrowsValue("oops") }

(***************************************************************************)
(* ToolRegistry.executeTool (registry.ts).  The value is what its caller   *)
(* and the spies on the tools observe: status "returned" with the          *)
(* ToolResult, or "raised" with the message of the exception; validated    *)
(* and executed list the tool instances whose validateParameters and       *)
(* execute were invoked, execute with its arguments.                       *)
(***************************************************************************)
Observation(n, p, st, r, th, v, x, o) ==
  [name |-> n, parameters |-> p, status |-> st, result |-> r, thrown |-> th,
   validated |-> v, executed |-> x, outcome |-> o]
\* execute was not invoked
NoOutcome == [kind |-> "none", result |-> NoResult, isError |-> FALSE, message |-> ""]
NoCall == Observation("", ArgsUndefined, "none", NoResult, "", <<>>, <<>>, NoOutcome)

\* a catch block that drops the message
CaughtResult_noMessage(outcome) == Failure(UNDEFINED)

\* the catch block around tool.execute
CaughtResult(outcome) ==
  Failure(IF outcome.isError THEN outcome.message ELSE "Unknown error occurred")

executeTool(map, name, parameters, outcome) ==
  LET tool == getTool(map, name) IN
  IF tool = NoTool
    THEN Observation(name, parameters, "returned",
           Failure("Tool '" \o name \o "' not found"),
           "", <<>>, <<>>, NoOutcome)
  ELSE LET validation == validateParameters(ToolDefs[tool], parameters) IN
    IF validation.threw
      THEN Observation(name, parameters, "raised", NoResult, validation.error,
             <<tool>>, <<>>, NoOutcome)
    ELSE IF validation.error # NULL
      THEN Observation(name, parameters, "returned",
             Failure(validation.error), "",
             <<tool>>, <<>>, NoOutcome)
    ELSE Observation(name, parameters, "returned",
           IF outcome.kind = "return" THEN outcome.result ELSE CaughtResult(outcome),
           "", <<tool>>, << [tool |-> tool, parameters |-> parameters] >>, outcome)

(***************************************************************************)
(* ToolRegistry.getFunctionDefinitions (registry.ts)                       *)
(***************************************************************************)
\* the property object built for one parameter; the enum key exists only
\* when the declaration has one
Property(param) ==
  [type |-> param.type, description |-> param.description,
   hasEnum |-> param.hasEnum, enum |-> IF param.hasEnum THEN param.enum ELSE <<>>]

RECURSIVE ReduceProps(_, _, _)
\* tool.parameters.reduce((props, param) => { props[param.name] = ...})
ReduceProps(params, i, props) ==
  IF i > Len(params) THEN props
  ELSE ReduceProps(params, i + 1,
         [k \in DOMAIN props \cup {params[i].name} |->
            IF k = params[i].name THEN Property(params[i]) ELSE props[k]])

EmptyProps == [k \in {} |-> Property(Param("", "string", "", FALSE))]

\* a required list without the filter
RequiredNames_all(params) == [i \in DOMAIN params |-> params[i].name]

RECURSIVE RequiredNames(_)
\* tool.parameters.filter(param => param.required).map(param => param.name)
RequiredNames(params) ==
  IF params = <<>> THEN <<>>
  ELSE IF Head(params).required
    THEN <<Head(params).name>> \o RequiredNames(Tail(params))
  ELSE RequiredNames(Tail(params))

FunctionDefinition(tool) ==
  [name |-> tool.name,
   description |-> tool.description,
   parameters |-> [type |-> "object",
                   properties |-> ReduceProps(tool.parameters, 1, EmptyProps),
                   required |-> RequiredNames(tool.parameters)]]

getFunctionDefinitions(map) ==
  LET available == getAvailableTools(map) IN
  [i \in DOMAIN available |-> FunctionDefinition(available[i])]

\* the model configuration before a client is constructed
NoSchema == [tools |-> FALSE, functionDeclarations |-> <<>>]

\* a constructor that configures the model without asking the registry
Configure_noTools(map) == NoSchema

\* the GeminiClient constructor: modelConfig.tools is set from the registry
\* handed to it, when that registry holds a tool
Configure(map) ==
  IF getToolCount(map) > 0
    THEN [tools |-> TRUE, functionDeclarations |-> getFunctionDefinitions(map)]
    ELSE NoSchema

(***************************************************************************)
(* ConversationMemory (memory.ts)                                          *)
(***************************************************************************)
Message(role, content, timestamp) ==
  [role |-> role, content |-> content, timestamp |-> timestamp]

\* Array.prototype.slice(start): a negative start counts from the end
SliceFrom(seq, start) ==
  LET len == Len(seq)
      from == IF start < 0
                THEN (IF len + start > 0 THEN len + start ELSE 0)
                ELSE (IF start < len THEN start ELSE len)
  IN SubSeq(seq, from + 1, len)

\* a trim that keeps the oldest messages
trimHistory_keepOldest(msgs, max) ==
  IF Len(msgs) > max THEN SubSeq(msgs, 1, max) ELSE msgs

\* trimHistory()
trimHistory(msgs, max) ==
  IF Len(msgs) > max THEN SliceFrom(msgs, 0 - max) ELSE msgs

\* an addUserMessage that stores nothing
addUserMessage_dropped(msgs, max, content, now) == msgs

\* addUserMessage(content), at time now
addUserMessage(msgs, max, content, now) ==
  trimHistory(Append(msgs, Message("user", content, now)), max)

\* addModelMessage(content), at time now
addModelMessage(msgs, max, content, now) ==
  trimHistory(Append(msgs, Message("model", content, now)), max)

\* getMessages()
getMessages(msgs) == msgs

\* a clear that keeps the latest message
clear_keepLatest(msgs) == SliceFrom(msgs, 0 - 1)

\* clear()
clear(msgs) == <<>>

\* the argument of getRecentMessages(count?): omitted, or a number
NoCount == [given |-> FALSE, n |-> 0]
Count(n) == [given |-> TRUE, n |-> n]

\* getRecentMessages(count?): limit = count || maxMessages, an omitted count
\* and the count 0 are both falsy; slice(-0) is slice(0)
getRecentMessages(msgs, max, count) ==
  LET limit == IF count.given /\ count.n # 0 THEN count.n ELSE max
  IN SliceFrom(msgs, 0 - limit)

\* no getRecentMessages call made yet
NoRecent ==
  [count |-> NoCount, stored |-> <<>>, returned |-> <<>>, after |-> <<>>,
   made |-> FALSE]

\* getStats(), without the session id
getStats(msgs) ==
  [messageCount |-> Len(msgs),
   userMessages |-> Cardinality({ i \in DOMAIN msgs : msgs[i].role = "user" }),
   modelMessages |-> Cardinality({ i \in DOMAIN msgs : msgs[i].role = "model" })]

\* the contents appended directly to a memory
Contents == { "hello", "what time is it?" }

(***************************************************************************)
(* GeminiClient.generateResponse, the variant on ConversationMemory        *)
(* (gemini.ts): what the model can reply and how a reply is rendered.      *)
(***************************************************************************)
\* no text returned yet
NoText == "<none>"

\* the texts of a model reply
ModelTexts == { "", "   ", " Hello! " }
\* String.prototype.trim, on the texts of the model
Trim(text) ==
  CASE text = "   " -> ""
    [] text = " Hello! " -> "Hello!"
    [] OTHER -> text

\* a functionCall part of a reply
FunctionCall(name, args) == [name |-> name, args |-> args]
\* the function calls a reply can carry: without args, with valid args, with
\* a required parameter missing, for an unknown name, with a primitive as
\* args, a write and a read of the same file, a call of a service tool
CallPool ==
  { FunctionCall("get_current_time", ArgsUndefined),
    FunctionCall("read_file", ArgsObject([k \in {"filepath"} |-> JsStr("iso")])),
    FunctionCall("write_file", ArgsObject(EmptyMap)),
    FunctionCall(UnknownName, ArgsObject(EmptyMap)),
    FunctionCall("get_current_time", ArgsString),
    FunctionCall("write_file",
      ArgsObject([k \in {"filepath", "content"} |->
                    IF k = "filepath" THEN JsStr("iso") ELSE JsStr("track")])),
    FunctionCall("set_volume", ArgsObject([k \in {"volume"} |-> JsNum("5")])),
    FunctionCall("get_current_time", ArgsObject([k \in {"format"} |-> JsStr("iso")])) }
CallSeqs == UNION { [1..n -> CallPool] : n \in 1..MaxCalls }
\* a reply: its text and its function calls
Reply(text, calls) == [text |-> text, calls |-> calls]
\* the replies that carry a text next to a function call
MixedReplies ==
  { Reply(" Hello! ", << FunctionCall(name, ArgsUndefined) >>) :
      name \in { "get_current_time", UnknownName } }
Replies ==
  { Reply(text, <<>>) : text \in ModelTexts }
    \cup { Reply("", calls) : calls \in CallSeqs }
    \cup MixedReplies

\* a client that takes a reply with a text as the answer, whatever its calls
HasFunctionCalls_textless(reply) == Len(reply.calls) > 0 /\ Trim(reply.text) = ""

\* functionCalls.length > 0 && this.toolRegistry: the agent always hands its
\* registry to the client
HasFunctionCalls(reply) == Len(reply.calls) > 0

\* the follow-up replies of the second model call: a text, or a text next
\* to another function call
FollowUps ==
  { Reply(text, <<>>) : text \in ModelTexts } \cup
  { Reply(" Hello! ", << FunctionCall("get_current_time", ArgsObject(EmptyMap)) >>) }

\* what chat.sendMessage can raise
ModelErrors ==
  { ThrowsError("fetch failed"), ThrowsError("API key not valid"), ThrowsValue("oops") }

\* a loop that takes the calls from the end
NextCall_last(calls) == calls[Len(calls)]

\* for (const part of functionCalls): the next call is the first one left
NextCall(calls) == Head(calls)

\* functionCall.args || {}
OrEmpty(args) ==
  IF args.kind \in { "undefined", "null" } THEN ArgsObject(EmptyMap) ELSE args

\* truthiness of toolResult.data and of toolResult.message
TruthyData(data) == data.kind # "undefined" /\ ~(data.kind = "string" /\ data.v = "")
TruthyText(text) == text # UNDEFINED /\ text # ""
\* a value inside a template literal
Shown(text) == IF text = UNDEFINED THEN "undefined" ELSE text

\* the section pushed to results for a ToolResult
FormatResult(name, toolResult) ==
  IF toolResult.success /\ TruthyData(toolResult.data)
    THEN IF name = "get_current_time"
           THEN "Current time: " \o toolResult.data.formatted
         ELSE IF name = "read_file"
           THEN "File content:\n\n" \o toolResult.data.v
         ELSE IF TruthyText(toolResult.message) THEN toolResult.message
         ELSE "Executed " \o name \o " successfully"
    ELSE "Error: " \o Shown(toolResult.error)

\* the section pushed by the catch block around executeTool
FormatRaised(name, thrown) == "Error executing " \o name \o ": " \o thrown

\* the section of one dispatched call
Section(name, obs) ==
  IF obs.status = "raised" THEN FormatRaised(name, obs.thrown)
  ELSE FormatResult(name, obs.result)

\* the fixed text for an empty reply
FallbackText ==
  "I'm thinking about your request but didn't generate a response. Could you try rephrasing?"
\* the text of the outer catch block
ApologyText(error) ==
  "I encountered an error: " \o
    (IF error.isError THEN error.message ELSE "Unknown error") \o ". Please try again."

\* the inputs of the user
Inputs == { "what time is it?" }

(***************************************************************************)
(* The GeminiClient of gemini.ts: its own history, and a second model call *)
(* that turns the tool results into the answer.                            *)
(***************************************************************************)
\* "Keep conversation history manageable (last 50 messages)"
HistoryCap == 50
\* addToHistory(role, content), at time now
addToHistory(history, role, content, now) ==
  LET pushed == Append(history, Message(role, content, now)) IN
  IF Len(pushed) > HistoryCap THEN SliceFrom(pushed, 0 - HistoryCap) ELSE pushed

\* JSON.stringify(toolResult.data, null, 2)
Stringify(data) ==
  IF data.kind = "string" THEN "\"" \o data.v \o "\""
  ELSE "{\n  \"formatted\": \"" \o data.formatted \o "\"\n}"

\* the lines added to responseText for a ToolResult; the marks are the
\* escapes of the two emoji
ResponseLines(name, toolResult) ==
  IF toolResult.success
    THEN "\\u2705 "
           \o (IF TruthyText(toolResult.message) THEN toolResult.message
               ELSE "Executed " \o name \o " successfully") \o "\n"
           \o (IF TruthyData(toolResult.data)
                 THEN "Result: " \o Stringify(toolResult.data) \o "\n" ELSE "")
    ELSE "\\u274C Error executing " \o name \o ": " \o Shown(toolResult.error) \o "\n"

\* the text of the catch block
TroubleText ==
  "I'm having trouble connecting to my AI brain right now. Please try again in a moment, or check if your GEMINI_API_KEY is configured correctly."

(***************************************************************************)
(* The system tools (system.ts) as the session runs them.  world is the    *)
(* file system: the content of each path, or Absent.  An execute yields a  *)
(* set of effects: the outcome of the call and the file system it leaves.  *)
(* The tools of the other modules reach external services; for them        *)
(* execute is any BaseTool.execute.                                        *)
(***************************************************************************)
Absent == "<absent>"
\* the paths of the working directory
Files == { "iso", "track" }
SystemFiles == { "/etc/passwd" }
\* systemPaths.some(sysPath => filepath.startsWith(sysPath))
isSystemFile(filepath) == filepath \in SystemFiles
\* content.length, printed
LengthOf(text) ==
  CASE text = "" -> "0"
    [] text = "iso" -> "3"
    [] text = "track" -> "5"
    [] OTHER -> "?"
\* new Date(), in the three formats of get_current_time
Now ==
  [iso |-> "2026-01-01T10:30:00.000Z", timestamp |-> "1767263400000",
   local |-> "1/1/2026, 10:30:00 AM"]

Effect(outcome, world) == [outcome |-> outcome, world |-> world]

\* ReadFileTool.execute
ReadFileTool_execute(parameters, world) ==
  LET filepath == parameters.m["filepath"].v IN
  IF isSystemFile(filepath)
    THEN { Effect(Returns(Failure("Access denied: Cannot read system files")), world) }
  ELSE IF world[filepath] = Absent
    THEN { Effect(Returns(Failure("ENOENT: no such file or directory, open '"
                                  \o filepath \o "'")), world) }
  ELSE { Effect(Returns(Result(TRUE, DataStr(world[filepath]),
                  "Successfully read " \o LengthOf(world[filepath])
                    \o " characters from " \o filepath, UNDEFINED)), world) }

\* WriteFileTool.execute: fs.writeFile stores the content, or fails
WriteFileTool_execute(parameters, world) ==
  LET filepath == parameters.m["filepath"].v
      content == parameters.m["content"].v
  IN IF isSystemFile(filepath)
       THEN { Effect(Returns(Failure("Access denied: Cannot write to system locations")),
                     world) }
     ELSE { Effect(Returns(Result(TRUE, NoData,
                     "Successfully wrote " \o LengthOf(content)
                       \o " characters to " \o filepath, UNDEFINED)),
                   [world EXCEPT ![filepath] = content]),
            Effect(Returns(Failure("EACCES: permission denied, open '"
                                   \o filepath \o "'")), world) }

\* a get_current_time that reports the time in its message only
GetCurrentTimeTool_execute_noData(parameters, world) ==
  { Effect(Returns(Result(TRUE, NoData, "Current time: " \o Now.local, UNDEFINED)), world) }

\* GetCurrentTimeTool.execute
GetCurrentTimeTool_execute(parameters, world) ==
  LET format == IF HasKey(parameters, "format") THEN parameters.m["format"].v
                ELSE "local"
      timeString == IF format = "iso" THEN Now.iso
                    ELSE IF format = "timestamp" THEN Now.timestamp
                    ELSE Now.local
  IN { Effect(Returns(Result(TRUE, DataObj(timeString),
                "Current time: " \o timeString, UNDEFINED)), world) }

\* tool.execute(parameters) of a registered instance
Execute(tool, parameters, world) ==
  CASE tool = 1 -> ReadFileTool_execute(parameters, world)
    [] tool = 3 -> GetCurrentTimeTool_execute(parameters, world)
    [] tool = 5 -> WriteFileTool_execute(parameters, world)
    [] OTHER -> { Effect(outcome, world) : outcome \in ExecOutcomes }

(***************************************************************************)
(* The Google Tasks tools (googleTasks.ts): makeTasksRequest, the          *)
(* authenticated-request helper of GoogleTasksBaseTool, as                 *)
(* AddGoogleTaskTool.execute uses it: once for the default task list, once *)
(* to insert the task.                                                     *)
(***************************************************************************)
\* the stored tokens of the service: none, or an access token with or
\* without a refresh token
NoTokens == [accessToken |-> UNDEFINED, refreshToken |-> UNDEFINED]
Tokens(access, refresh) == [accessToken |-> access, refreshToken |-> refresh]
StoredTokens ==
  { NoTokens, Tokens("ya29.a", UNDEFINED), Tokens("ya29.a", "1//r") }

\* the statuses the Tasks API answers with
Statuses == { 200, 401, 403, 500 }
\* `Google Tasks API error (${response.status}): ${error}`
ApiError(status) ==
  "Google Tasks API error (" \o (IF status = 403 THEN "403" ELSE "500") \o "): "
    \o (IF status = 403 THEN "quota exceeded" ELSE "backend error")
\* the items of a task-list listing: none, or one list
ItemLists == { <<>>, << "MTIz" >> }
\* the answers of the token endpoint: not ok, ok with an access token, ok
\* without one
RefreshAnswers ==
  { [ok |-> FALSE, access_token |-> UNDEFINED],
    [ok |-> TRUE, access_token |-> "ya29.b"],
    [ok |-> TRUE, access_token |-> UNDEFINED] }

\* no execution started: the position, the tokens on disk, the endpoint of
\* the request being made, the responses it got, the refreshes it made
NoRequest ==
  [pc |-> "idle", tokens |-> NoTokens, tool |-> "", filter |-> "", endpoint |-> "",
   statuses |-> <<>>, refreshes |-> 0, result |-> NoResult]

\* the endpoint of the tool's second request, on the task list id
TasksEndpoint(r, id) ==
  "/lists/" \o id \o "/tasks" \o
    (CASE r.tool = "add_google_task" -> ""
       [] r.filter = "pending" -> "?maxResults=20&showCompleted=false"
       [] OTHER -> "?maxResults=20")

\* the ToolResult of the tool once its second request returned data
TaskResult(r, items) ==
  CASE r.tool = "add_google_task" ->
         Result(TRUE, DataObj("buy milk"), "Task added to Google Tasks!", UNDEFINED)
    [] items = <<>> ->
         Result(TRUE, DataObj("0"), "No tasks found. Add one with \"add a task\"!", UNDEFINED)
    [] OTHER ->
         Result(TRUE, DataObj("1"), "Google Tasks (1 " \o
                  (IF r.filter = "all" THEN "total" ELSE r.filter) \o ")", UNDEFINED)

\* the catch block of execute: the raised error becomes a failed ToolResult
Raised(r, message) == [r EXCEPT !.pc = "returned", !.result = Failure(message)]

\* if (tokens.refreshToken): refresh and retry
CanRetry(r) == r.tokens.refreshToken # UNDEFINED

\* makeTasksRequest(endpoint, ...) up to its fetch: the tokens are loaded,
\* and without an access token the request raises
makeTasksRequest(r, endpoint) ==
  IF r.tokens.accessToken = UNDEFINED
    THEN Raised(r, "Not authenticated with Google. Run: node dist/index.js auth google")
    ELSE [r EXCEPT !.pc = "fetching", !.endpoint = endpoint]

\* a new makeTasksRequest, called by the tool
NewRequest(r, endpoint) ==
  makeTasksRequest([r EXCEPT !.statuses = <<>>, !.refreshes = 0], endpoint)

(***************************************************************************)
(* State.                                                                  *)
(*   tools        ToolRegistry.tools                                       *)
(*   regLog       the instances handed to registerTool since construction  *)
(*                or the last clearTools, in call order (history)          *)
(*   call         the observation of the latest executeTool on the current *)
(*                registry contents                                        *)
(*   query        the latest lookup or listing made on the current registry*)
(*                contents: the method, its argument, and what it returned;*)
(*                of call and query, the one made last is kept             *)
(*   messages     ConversationMemory.messages                              *)
(*   maxMessages  ConversationMemory.maxMessages                           *)
(*   appended     the messages appended since construction or the last     *)
(*                clear(), in append order (history)                       *)
(*   clock        Date.now(), as the number of appends made so far         *)
(*   pc           the position of generateResponse: "idle" between turns,  *)
(*                "awaiting_model_reply" at chat.sendMessage,              *)
(*                "executing_tools" inside the loop over the function calls*)
(*   input        the user input of the turn                               *)
(*   pending      the function calls of the reply not yet dispatched       *)
(*   results      the summary sections of the calls dispatched so far      *)
(*   dispatched   the observations of the turn's executeTool calls         *)
(*   finalText    the text the latest generateResponse returned            *)
(*   turns        the number of turns started                              *)
(*   emitted      the function calls of the turn's model reply, as emitted *)
(*   disk         the file system the tools read and write                 *)
(*   seen         the file system each dispatched call started on          *)
(*   before       ConversationMemory.messages when the turn started        *)
(*   variant      the GeminiClient in use: "memory" (ConversationMemory,   *)
(*                the tool summary is the answer) or "roundtrip"           *)
(*                (gemini.ts, a follow-up model call gives the answer)     *)
(*   modelCalls   the model calls the turn has made                        *)
(*   replied      the replies the model gave in the turn                   *)
(*   yielded      the chunks processStreamingRequest has yielded for the   *)
(*                request                                                  *)
(*   isRunning    JarvisCLI.isRunning                                      *)
(*   modelConfig  the model configuration the GeminiClient constructor     *)
(*                made: whether it carries tools, and the function         *)
(*                declarations                                             *)
(*   task         the Google Tasks tool execution in progress: its position,*)
(*                the stored Google tokens, the request it is making, the  *)
(*                fetches and token refreshes of that request, and the     *)
(*                ToolResult once it has returned                          *)
(*   recent       the latest getRecentMessages call: its argument, the     *)
(*                messages stored when it was made and what it returned    *)
(***************************************************************************)
VARIABLES tools, regLog, call, query, messages, maxMessages, appended, clock,
          pc, input, pending, results, dispatched, finalText, turns,
          emitted, disk, seen, before, variant, modelCalls, replied,
          yielded, isRunning, recent, modelConfig, task

registryVars == <<tools, regLog, call, query>>
memoryVars == <<messages, maxMessages, appended, clock>>
turnVars == <<pc, input, pending, results, dispatched, finalText, turns,
              emitted, disk, seen, before, variant, modelCalls, replied,
          yielded, isRunning, recent, modelConfig, task>>
vars == <<tools, regLog, call, query, messages, maxMessages, appended, clock,
          pc, input, pending, results, dispatched, finalText, turns,
          emitted, disk, seen, before, variant, modelCalls, replied,
          yielded, isRunning, recent, modelConfig, task>>

\* a ToolRegistry after its constructor
NewRegistry ==
  /\ tools = <<>>
  /\ regLog = <<>>
  /\ call = NoCall
  /\ query = NoQuery

\* a ConversationMemory after its constructor, with cap max
NewMemory(max) ==
  /\ messages = <<>>
  /\ maxMessages = max
  /\ appended = <<>>
  /\ clock = 0

\* a GeminiClient after its constructor: no turn started
NewClient ==
  /\ pc = "idle"
  /\ input = ""
  /\ pending = <<>>
  /\ results = <<>>
  /\ dispatched = <<>>
  /\ finalText = NoText
  /\ turns = 0
  /\ emitted = <<>>
  /\ disk = [f \in Files |-> Absent]
  /\ seen = <<>>
  /\ before = <<>>
  /\ variant = "memory"
  /\ modelCalls = 0
  /\ replied = <<>>
  /\ yielded = <<>>
  /\ isRunning = TRUE
  /\ recent = NoRecent
  /\ modelConfig = NoSchema
  /\ task = NoRequest

\* the arguments a caller can pass for a name: every mapping over the keys
\* some tool of that name declares (one key for a name nobody declares), and
\* the non-mapping values
KeysOf(name) ==
  IF name \in ToolNames
    THEN UNION { { ToolDefs[t].parameters[i].name : i \in DOMAIN ToolDefs[t].parameters } :
                 t \in { u \in ToolIds : ToolDefs[u].name = name } }
    ELSE { "x" }
Mappings(keys) == UNION { [K -> ArgValues] : K \in SUBSET keys }
ArgsFor(name) == { ArgsObject(m) : m \in Mappings(KeysOf(name)) } \cup NonMappingArgs

\* a value of the declared type
SampleValue(type) ==
  CASE type = "string" -> JsStr("iso")
    [] type = "number" -> JsNum("5")
    [] type = "boolean" -> JsBool("true")
    [] OTHER -> JsArr("[]")
\* arguments carrying exactly the required parameters of a definition
SampleArgs(definition) ==
  LET req == { i \in DOMAIN definition.parameters : definition.parameters[i].required } IN
  ArgsObject([k \in { definition.parameters[i].name : i \in req } |->
    SampleValue(definition.parameters[
      CHOOSE i \in req : definition.parameters[i].name = k].type)])
\* the arguments tried while the registry contents change: the empty mapping,
\* an absent value and the required parameters of each tool of that name
ProbeArgs(name) ==
  { ArgsObject(EmptyMap), ArgsUndefined } \cup
  { SampleArgs(ToolDefs[t]) : t \in { u \in ToolIds : ToolDefs[u].name = name } }

\* execute is consulted only when the tool is found and validation passes;
\* on the other paths its behaviour is not an input of the call
ReachesExecute(map, name, parameters) ==
  /\ getTool(map, name) # NoTool
  /\ LET validation == validateParameters(ToolDefs[getTool(map, name)], parameters)
     IN ~validation.threw /\ validation.error = NULL
OutcomesFor(map, name, parameters) ==
  IF ReachesExecute(map, name, parameters) THEN ExecOutcomes ELSE { ThrowsError("boom") }
\* the same for a session: the effects of the instance the registry resolves
EffectsFor(map, name, parameters, world) ==
  IF ReachesExecute(map, name, parameters)
    THEN Execute(getTool(map, name), parameters, world)
    ELSE { Effect(ThrowsError("boom"), world) }

(***************************************************************************)
(* Registry operations as actions.                                         *)
(***************************************************************************)
registerTool(tool) ==
  /\ Len(regLog) < MaxRegs
  /\ tools' = MapSet(tools, tool)
  /\ regLog' = Append(regLog, tool)
  /\ call' = NoCall
  /\ query' = NoQuery
  /\ UNCHANGED memoryVars
  /\ UNCHANGED turnVars

clearTools ==
  /\ tools' = <<>>
  /\ regLog' = <<>>
  /\ call' = NoCall
  /\ query' = NoQuery
  /\ UNCHANGED memoryVars
  /\ UNCHANGED turnVars

\* getTool, getAvailableTools, getToolsByCategory, getFunctionDefinitions
\* and getToolCount: the registry is read and the value returned
Query(q) ==
  /\ query' =
       CASE q.op = "getTool" ->
              [NoQuery EXCEPT !.op = q.op, !.arg = q.arg, !.tool = getTool(tools, q.arg)]
         [] q.op = "getAvailableTools" ->
              [NoQuery EXCEPT !.op = q.op, !.list = getAvailableTools(tools)]
         [] q.op = "getToolsByCategory" ->
              [NoQuery EXCEPT !.op = q.op, !.arg = q.arg,
                              !.list = getToolsByCategory(tools, q.arg)]
         [] q.op = "getFunctionDefinitions" ->
              [NoQuery EXCEPT !.op = q.op, !.list = getFunctionDefinitions(tools)]
         [] q.op = "getToolCount" ->
              [NoQuery EXCEPT !.op = q.op, !.count = getToolCount(tools)]
  /\ call' = NoCall
  /\ UNCHANGED <<tools, regLog>>
  /\ UNCHANGED memoryVars
  /\ UNCHANGED turnVars

ExecuteTool(name, parameters) ==
  /\ \E outcome \in OutcomesFor(tools, name, parameters) :
       call' = executeTool(tools, name, parameters, outcome)
  /\ query' = NoQuery
  /\ UNCHANGED <<tools, regLog>>
  /\ UNCHANGED memoryVars
  /\ UNCHANGED turnVars

(***************************************************************************)
(* RegistrySpec: a fresh ToolRegistry under any sequence of registerTool,  *)
(* clearTools and executeTool.                                             *)
(***************************************************************************)
RegistryInit ==
  /\ NewRegistry
  /\ NewMemory(MaxCap)
  /\ NewClient

RegistryNext ==
  \/ \E tool \in ToolIds : registerTool(tool)
  \/ clearTools
  \/ \E name \in CallNames : \E parameters \in ProbeArgs(name) :
       ExecuteTool(name, parameters)
  \/ \E q \in Queries : Query(q)

RegistrySpec == RegistryInit /\ [][RegistryNext]_vars

(***************************************************************************)
(* DispatchSpec: the registry as an agent leaves it after construction     *)
(* (every tool registered once, in order), under executeTool with every    *)
(* name and every arguments value.                                         *)
(***************************************************************************)
RECURSIVE RegisterAll(_, _)
RegisterAll(map, ids) ==
  IF ids = <<>> THEN map ELSE RegisterAll(MapSet(map, Head(ids)), Tail(ids))
AllIds == [i \in ToolIds |-> i]

DispatchInit ==
  /\ tools = RegisterAll(<<>>, AllIds)
  /\ regLog = AllIds
  /\ call = NoCall
  /\ query = NoQuery
  /\ NewMemory(MaxCap)
  /\ NewClient

DispatchNext ==
  \E name \in CallNames : \E parameters \in ArgsFor(name) :
    ExecuteTool(name, parameters)

DispatchSpec == DispatchInit /\ [][DispatchNext]_vars

(***************************************************************************)
(* MemorySpec: a fresh ConversationMemory of any cap under any sequence of *)
(* addUserMessage, addModelMessage and clear.                              *)
(***************************************************************************)
AddUserMessage(content) ==
  /\ clock < MaxAppends
  /\ messages' = addUserMessage(messages, maxMessages, content, clock)
  /\ appended' = Append(appended, Message("user", content, clock))
  /\ clock' = clock + 1
  /\ UNCHANGED maxMessages
  /\ UNCHANGED registryVars
  /\ UNCHANGED turnVars

AddModelMessage(content) ==
  /\ clock < MaxAppends
  /\ messages' = addModelMessage(messages, maxMessages, content, clock)
  /\ appended' = Append(appended, Message("model", content, clock))
  /\ clock' = clock + 1
  /\ UNCHANGED maxMessages
  /\ UNCHANGED registryVars
  /\ UNCHANGED turnVars

Clear ==
  /\ messages' = clear(messages)
  /\ appended' = <<>>
  /\ UNCHANGED <<maxMessages, clock>>
  /\ UNCHANGED registryVars
  /\ UNCHANGED turnVars

\* getRecentMessages(count), for the counts a caller passes
Counts == { NoCount } \cup { Count(n) : n \in 0..(MaxCap + 1) }

GetRecentMessages(count) ==
  /\ UNCHANGED memoryVars
  /\ recent' = [count |-> count, stored |-> messages, made |-> TRUE,
                returned |-> getRecentMessages(messages, maxMessages, count),
                after |-> messages']
  /\ UNCHANGED registryVars
  /\ UNCHANGED <<pc, input, pending, results, dispatched, finalText, turns>>
  /\ UNCHANGED <<emitted, disk, seen, before, variant, modelCalls, replied>>
  /\ UNCHANGED <<yielded, isRunning, modelConfig, task>>

MemoryInit ==
  /\ NewRegistry
  /\ \E max \in 1..MaxCap : NewMemory(max)
  /\ NewClient

MemoryNext ==
  \/ \E content \in Contents : AddUserMessage(content)
  \/ \E content \in Contents : AddModelMessage(content)
  \/ Clear
  \/ \E count \in Counts : GetRecentMessages(count)

MemorySpec == MemoryInit /\ [][MemoryNext]_vars

(***************************************************************************)
(* AnyCapSpec: a ConversationMemory constructed with any cap the           *)
(* constructor takes, 0 included, under any sequence of appends and clears.*)
(***************************************************************************)
AnyCapInit ==
  /\ NewRegistry
  /\ \E max \in 0..MaxCap : NewMemory(max)
  /\ NewClient

AnyCapNext ==
  \/ \E content \in Contents : AddUserMessage(content)
  \/ \E content \in Contents : AddModelMessage(content)
  \/ Clear

AnyCapSpec == AnyCapInit /\ [][AnyCapNext]_vars

(***************************************************************************)
(* Spec: a session of an agent.  The registry holds the tools registered   *)
(* at construction; each turn is one generateResponse, returned through    *)
(* processRequest.                                                         *)
(***************************************************************************)
\* the tools an agent registers at construction: read_file, write_file,
\* get_current_time, git_commit, search_music, set_volume
AgentIds == <<1, 5, 3, 7, 4, 6>>

\* a caller that does not wait for the turn in progress
CanAccept_noAwait == TRUE

\* the callers await each request before the next: a turn starts only
\* between turns
CanAccept == pc = "idle"

\* generateResponse up to chat.sendMessage: the user message is stored
BeginTurn(userInput) ==
  /\ variant = "memory"
  /\ UNCHANGED <<isRunning, recent, modelConfig, task>>
  /\ messages' = addUserMessage(messages, maxMessages, userInput, clock)
  /\ clock' = clock + 1
  /\ pc' = "awaiting_model_reply"
  /\ input' = userInput
  /\ pending' = <<>>
  /\ results' = <<>>
  /\ dispatched' = <<>>
  /\ finalText' = NoText
  /\ turns' = turns + 1
  /\ emitted' = <<>>
  /\ seen' = <<>>
  /\ before' = messages
  /\ modelCalls' = 1
  /\ replied' = <<>>
  /\ yielded' = <<>>
  /\ UNCHANGED <<maxMessages, appended, disk, variant>>
  /\ UNCHANGED registryVars

\* a turn starts when its caller is not inside another one
StartTurn(userInput) ==
  /\ CanAccept
  /\ turns < MaxTurns
  /\ BeginTurn(userInput)

\* the reply arrives: with function calls the loop over them starts; without,
\* the text is the answer, or the fallback when it is blank
ModelReplies(reply) ==
  /\ UNCHANGED <<isRunning, recent, modelConfig, task>>
  /\ variant = "memory"
  /\ pc = "awaiting_model_reply"
  /\ IF HasFunctionCalls(reply)
       THEN /\ pc' = "executing_tools"
            /\ pending' = reply.calls
            /\ emitted' = reply.calls
            /\ UNCHANGED <<messages, clock, finalText>>
       ELSE /\ pc' = "idle"
            /\ pending' = <<>>
            /\ emitted' = <<>>
            /\ IF reply.text = "" \/ Trim(reply.text) = ""
                 THEN /\ finalText' = FallbackText
                      /\ UNCHANGED <<messages, clock>>
                 ELSE /\ messages' = addModelMessage(messages, maxMessages, reply.text, clock)
                      /\ clock' = clock + 1
                      /\ finalText' = Trim(reply.text)
  /\ UNCHANGED <<input, results, dispatched, turns, maxMessages, appended>>
  /\ replied' = <<reply>>
  /\ UNCHANGED yielded
  /\ UNCHANGED <<disk, seen, before, variant, modelCalls>>
  /\ UNCHANGED registryVars

\* chat.sendMessage raises: the outer catch returns the apology
ModelFails(error) ==
  /\ UNCHANGED <<isRunning, recent, modelConfig, task>>
  /\ variant = "memory"
  /\ pc = "awaiting_model_reply"
  /\ pc' = "idle"
  /\ finalText' = ApologyText(error)
  /\ UNCHANGED <<input, pending, results, dispatched, turns>>
  /\ UNCHANGED <<emitted, disk, seen, before, variant, modelCalls, replied,
          yielded>>
  /\ UNCHANGED memoryVars
  /\ UNCHANGED registryVars

\* one iteration of the loop: the next function call goes through executeTool
\* and its section is pushed; after the last call the sections are joined,
\* stored as the model message and returned
DispatchCall ==
  /\ UNCHANGED <<isRunning, recent, modelConfig, task>>
  /\ variant = "memory"
  /\ pc = "executing_tools"
  /\ pending # <<>>
  /\ LET name == NextCall(pending).name
         args == OrEmpty(NextCall(pending).args)
     IN \E effect \in EffectsFor(tools, name, args, disk) :
          LET obs == executeTool(tools, name, args, effect.outcome)
              sections == Append(results, Section(name, obs))
          IN /\ call' = obs
             /\ disk' = effect.world
             /\ seen' = Append(seen, disk)
             /\ dispatched' = Append(dispatched, obs)
             /\ results' = sections
             /\ pending' = Tail(pending)
             /\ IF Tail(pending) = <<>>
                  THEN /\ pc' = "idle"
                       /\ finalText' = Join(sections, "\n\n")
                       /\ messages' = addModelMessage(messages, maxMessages,
                                                      Join(sections, "\n\n"), clock)
                       /\ clock' = clock + 1
                  ELSE UNCHANGED <<pc, finalText, messages, clock>>
  /\ UNCHANGED <<input, turns, maxMessages, appended, tools, regLog, query>>
  /\ UNCHANGED <<emitted, before, variant, modelCalls, replied, yielded>>

\* an earlier turn of the session
EarlierTurn == << Message("user", "hello", 0), Message("model", "Hello!", 1) >>
\* the working directory at the start: empty, or holding an empty file
Disks == { [f \in Files |-> Absent], [f \in Files |-> IF f = "iso" THEN "" ELSE Absent] }

\* a session between two turns: the registry as the agent's constructor
\* leaves it, the memory new or as an earlier turn left it
Session(client) ==
  /\ tools = RegisterAll(<<>>, AgentIds)
  /\ regLog = AgentIds
  /\ call = NoCall
  /\ query = NoQuery
  /\ appended = <<>>
  /\ pc = "idle"
  /\ input = ""
  /\ pending = <<>>
  /\ results = <<>>
  /\ dispatched = <<>>
  /\ finalText = NoText
  /\ turns = 0
  /\ emitted = <<>>
  /\ seen = <<>>
  /\ before = <<>>
  /\ modelCalls = 0
  /\ replied = <<>>
  /\ yielded = <<>>
  /\ isRunning = TRUE
  /\ recent = NoRecent
  /\ modelConfig = Configure(tools)
  /\ task = NoRequest
  /\ variant = client
  /\ disk \in Disks

Init ==
  /\ Session("memory")
  /\ \E max \in 1..MaxCap : \E history \in { <<>>, EarlierTurn } :
       /\ maxMessages = max
       /\ messages = trimHistory(history, max)
       /\ clock = Len(history)

Next ==
  \/ \E userInput \in Inputs : StartTurn(userInput)
  \/ \E reply \in Replies : ModelReplies(reply)
  \/ \E error \in ModelErrors : ModelFails(error)
  \/ DispatchCall

Spec == Init /\ [][Next]_vars

(***************************************************************************)
(* AgentSpec: the agent from its constructor on.  The constructor makes    *)
(* the registry, registers the tools one after the other (the Spotify      *)
(* tools only with credentials in the environment), and then constructs    *)
(* the GeminiClient on the registry; the session's turns follow.           *)
(***************************************************************************)
\* the tools initializeTools registers whatever the environment
SystemCount == 4

\* initializeTools: the next registerTool of the constructor
InitializeTool ==
  /\ pc = "constructing"
  /\ Len(regLog) < Len(AgentIds)
  /\ tools' = MapSet(tools, AgentIds[Len(regLog) + 1])
  /\ regLog' = Append(regLog, AgentIds[Len(regLog) + 1])
  /\ UNCHANGED <<call, query>>
  /\ UNCHANGED memoryVars
  /\ UNCHANGED <<pc, input, pending, results, dispatched, finalText, turns>>
  /\ UNCHANGED <<emitted, disk, seen, before, variant, modelCalls, replied>>
  /\ UNCHANGED <<yielded, isRunning, recent, modelConfig, task>>

\* new GeminiClient(logger, toolRegistry), after initializeTools
NewGeminiClient ==
  /\ pc = "constructing"
  /\ Len(regLog) \in { SystemCount, Len(AgentIds) }
  /\ modelConfig' = Configure(tools)
  /\ pc' = "idle"
  /\ UNCHANGED registryVars
  /\ UNCHANGED memoryVars
  /\ UNCHANGED <<input, pending, results, dispatched, finalText, turns>>
  /\ UNCHANGED <<emitted, disk, seen, before, variant, modelCalls, replied>>
  /\ UNCHANGED <<yielded, isRunning, recent, task>>

AgentInit ==
  /\ NewRegistry
  /\ \E max \in 1..MaxCap : NewMemory(max)
  /\ input = ""
  /\ pending = <<>>
  /\ results = <<>>
  /\ dispatched = <<>>
  /\ finalText = NoText
  /\ turns = 0
  /\ emitted = <<>>
  /\ disk \in Disks
  /\ seen = <<>>
  /\ before = <<>>
  /\ variant = "memory"
  /\ modelCalls = 0
  /\ replied = <<>>
  /\ yielded = <<>>
  /\ isRunning = TRUE
  /\ recent = NoRecent
  /\ modelConfig = NoSchema
  /\ task = NoRequest
  /\ pc = "constructing"

AgentNext ==
  \/ InitializeTool
  \/ NewGeminiClient
  \/ \E userInput \in Inputs : StartTurn(userInput)
  \/ \E reply \in Replies : ModelReplies(reply)
  \/ \E error \in ModelErrors : ModelFails(error)
  \/ DispatchCall

AgentSpec == AgentInit /\ [][AgentNext]_vars

(***************************************************************************)
(* processStreamingRequest.  The agent of core.ts awaits generateResponse  *)
(* and yields its text; the agent of part_012 relays the chunks of         *)
(* generateStreamingResponse, which streams the reply of the model.        *)
(***************************************************************************)
\* the texts of the streamed chunks
ChunkTexts == { "Sure,", "done." }
\* a chunk of the stream: text parts (chunk.text() is "" without any), or
\* a functionCall part
TextChunk(text) == [text |-> text, isCall |-> FALSE, functionCall |-> FunctionCall("", ArgsUndefined)]
CallChunk(functionCall) == [text |-> "", isCall |-> TRUE, functionCall |-> functionCall]
Chunks ==
  { TextChunk(text) : text \in ChunkTexts \cup { "" } } \cup
  { CallChunk(FunctionCall("get_current_time", ArgsObject(EmptyMap))) }
\* the text of the catch block of generateStreamingResponse
StreamTroubleText ==
  "I'm having trouble with my AI connection. Please check your GEMINI_API_KEY configuration."
\* fullResponse: the chunk texts so far
FullResponse(chunks) == Join(chunks, "")

\* the consumer has drained the generator of the request before
RequestDone == turns = 0 \/ yielded # <<>> \/ finalText = NoText

\* core.ts: const response = await generateResponse(userInput)
StreamingRequest(userInput) ==
  /\ RequestDone
  /\ StartTurn(userInput)

\* core.ts: yield response.text
YieldText ==
  /\ UNCHANGED <<isRunning, recent, modelConfig, task>>
  /\ pc = "idle"
  /\ turns > 0
  /\ finalText # NoText
  /\ yielded = <<>>
  /\ yielded' = <<finalText>>
  /\ UNCHANGED <<pc, input, pending, results, dispatched, finalText, turns>>
  /\ UNCHANGED <<emitted, disk, seen, before, variant, modelCalls, replied>>
  /\ UNCHANGED memoryVars
  /\ UNCHANGED registryVars

\* part_012 with generateStreamingResponse up to generateContentStream
StreamStart(userInput) ==
  /\ UNCHANGED <<isRunning, recent, modelConfig, task>>
  /\ variant = "memory"
  /\ CanAccept
  /\ turns < MaxTurns
  /\ RequestDone
  /\ messages' = addUserMessage(messages, maxMessages, userInput, clock)
  /\ clock' = clock + 1
  /\ pc' = "streaming"
  /\ input' = userInput
  /\ pending' = <<>>
  /\ results' = <<>>
  /\ dispatched' = <<>>
  /\ finalText' = NoText
  /\ turns' = turns + 1
  /\ emitted' = <<>>
  /\ seen' = <<>>
  /\ before' = messages
  /\ modelCalls' = 1
  /\ replied' = <<>>
  /\ yielded' = <<>>
  /\ UNCHANGED <<maxMessages, appended, disk, variant>>
  /\ UNCHANGED registryVars

\* one chunk of result.stream: a non-empty text is added to fullResponse
\* and yielded; a functionCall part has no text and is passed over
StreamChunk(chunk) ==
  /\ UNCHANGED <<isRunning, recent, modelConfig, task>>
  /\ pc = "streaming"
  /\ Len(replied) < MaxChunks
  /\ replied' = Append(replied, chunk)
  /\ emitted' = IF chunk.isCall THEN Append(emitted, chunk.functionCall) ELSE emitted
  /\ yielded' = IF chunk.text # "" THEN Append(yielded, chunk.text) ELSE yielded
  /\ UNCHANGED <<pc, input, pending, results, dispatched, finalText, turns>>
  /\ UNCHANGED <<disk, seen, before, variant, modelCalls>>
  /\ UNCHANGED memoryVars
  /\ UNCHANGED registryVars

\* the stream ends: a non-blank fullResponse is stored, trimmed
StreamEnd ==
  /\ UNCHANGED <<isRunning, recent, modelConfig, task>>
  /\ pc = "streaming"
  /\ pc' = "idle"
  /\ IF Trim(FullResponse(yielded)) # ""
       THEN /\ messages' = addModelMessage(messages, maxMessages,
                                            Trim(FullResponse(yielded)), clock)
            /\ clock' = clock + 1
       ELSE UNCHANGED <<messages, clock>>
  /\ UNCHANGED <<input, pending, results, dispatched, finalText, turns>>
  /\ UNCHANGED <<emitted, disk, seen, before, variant, modelCalls, replied, yielded>>
  /\ UNCHANGED <<maxMessages, appended>>
  /\ UNCHANGED registryVars

\* generateContentStream or the stream raises: the catch block yields its
\* text
StreamFails(error) ==
  /\ UNCHANGED <<isRunning, recent, modelConfig, task>>
  /\ pc = "streaming"
  /\ pc' = "idle"
  /\ yielded' = Append(yielded, StreamTroubleText)
  /\ UNCHANGED <<input, pending, results, dispatched, finalText, turns>>
  /\ UNCHANGED <<emitted, disk, seen, before, variant, modelCalls, replied>>
  /\ UNCHANGED memoryVars
  /\ UNCHANGED registryVars

StreamNext ==
  \/ \E userInput \in Inputs : StreamingRequest(userInput)
  \/ \E reply \in Replies : ModelReplies(reply)
  \/ \E error \in ModelErrors : ModelFails(error)
  \/ DispatchCall
  \/ YieldText
  \/ \E userInput \in Inputs : StreamStart(userInput)
  \/ \E chunk \in Chunks : StreamChunk(chunk)
  \/ StreamEnd
  \/ \E error \in ModelErrors : StreamFails(error)

StreamSpec == Init /\ [][StreamNext]_vars

(***************************************************************************)
(* The interactive loop of JarvisCLI (interface.ts): start() awaits        *)
(* handleUserInput again and again; a line that is not empty, an exit      *)
(* command, help or clear goes to processStreamingRequest, whose chunks    *)
(* are printed before the loop comes back to the prompt.                   *)
(***************************************************************************)
\* the lines a user types
Lines == { "", "   ", "EXIT", "help", "clear", "what time is it?" }
\* String.prototype.toLowerCase, on the lines
ToLowerCase(text) == IF text = "EXIT" THEN "exit" ELSE text
\* isExitCommand(input)
isExitCommand(text) ==
  Includes(<<"exit", "quit", "bye", "goodbye", "stop">>, ToLowerCase(text))
\* the replies of the model in a session of several requests
CliReplies ==
  { Reply(" Hello! ", <<>>),
    Reply("", << FunctionCall("get_current_time", ArgsUndefined) >>),
    Reply("", << FunctionCall("write_file",
                   ArgsObject([k \in {"filepath", "content"} |->
                                 IF k = "filepath" THEN JsStr("iso") ELSE JsStr("track")])),
                 FunctionCall("read_file",
                   ArgsObject([k \in {"filepath"} |-> JsStr("iso")])) >>) }

\* handleUserInput: the prompt is answered
handleUserInput(line) ==
  /\ isRunning
  /\ CanAccept
  /\ RequestDone
  /\ LET userInput == Trim(line) IN
     IF userInput = "" THEN UNCHANGED vars
     ELSE IF isExitCommand(userInput)
       THEN /\ isRunning' = FALSE
            /\ UNCHANGED <<pc, input, pending, results, dispatched, finalText, turns>>
            /\ UNCHANGED <<emitted, disk, seen, before, variant, modelCalls, replied, yielded>>
            /\ UNCHANGED <<recent, modelConfig, task>>
            /\ UNCHANGED memoryVars
            /\ UNCHANGED registryVars
     ELSE IF ToLowerCase(userInput) \in { "help", "clear" } THEN UNCHANGED vars
     ELSE turns < MaxInputs /\ BeginTurn(userInput)

CliNext ==
  \/ \E line \in Lines : handleUserInput(line)
  \/ \E reply \in CliReplies : ModelReplies(reply)
  \/ \E error \in { ThrowsError("fetch failed") } : ModelFails(error)
  \/ DispatchCall
  \/ YieldText

CliSpec == Init /\ [][CliNext]_vars

(***************************************************************************)
(* TasksSpec: one execute of AddGoogleTaskTool or ListGoogleTasksTool      *)
(* against a Tasks API and a token endpoint that answer anything, with the *)
(* tokens the auth command stored.                                         *)
(***************************************************************************)
\* the titles the tool is called with: absent, or a title
Titles == { UNDEFINED, "buy milk" }

\* the frame of the steps of the tool
TaskFrame ==
  /\ UNCHANGED registryVars
  /\ UNCHANGED memoryVars
  /\ UNCHANGED <<pc, input, pending, results, dispatched, finalText, turns>>
  /\ UNCHANGED <<emitted, disk, seen, before, variant, modelCalls, replied>>
  /\ UNCHANGED <<yielded, isRunning, recent, modelConfig>>

\* `auth google`: the tokens are stored
Authenticate(tokens) ==
  /\ task.pc = "idle"
  /\ task.tokens = NoTokens
  /\ task' = [task EXCEPT !.tokens = tokens]
  /\ TaskFrame

\* execute(parameters): without a title a failure, with one the request for
\* the default task list
ExecuteAddTask(title) ==
  /\ task.pc = "idle"
  /\ LET r == [task EXCEPT !.tool = "add_google_task"] IN
     task' = IF title = UNDEFINED
               THEN Raised(r, "Task title is required")
               ELSE NewRequest(r, "/users/@me/lists")
  /\ TaskFrame

\* ListGoogleTasksTool.execute(parameters): the request for the default
\* task list
ExecuteListTasks(filter) ==
  /\ task.pc = "idle"
  /\ task' = NewRequest([task EXCEPT !.tool = "list_google_tasks", !.filter = filter],
                        "/users/@me/lists")
  /\ TaskFrame

\* the fetch of makeTasksRequest is answered
Respond(status, items) ==
  /\ task.pc = "fetching"
  /\ Len(task.statuses) < MaxFetches
  /\ LET r == [task EXCEPT !.statuses = Append(@, status)] IN
     task' =
       CASE status = 401 ->
              IF CanRetry(r)
                THEN [r EXCEPT !.pc = "refreshing"]
                ELSE Raised(r, "Authentication expired. Please re-authenticate with Google.")
         [] status = 200 /\ r.endpoint = "/users/@me/lists" ->
              IF items # <<>>
                THEN NewRequest(r, TasksEndpoint(r, items[1]))
                ELSE Raised(r, "No task lists found")
         [] status = 200 /\ r.endpoint # "/users/@me/lists" ->
              [r EXCEPT !.pc = "returned", !.result = TaskResult(r, items)]
         [] OTHER -> Raised(r, ApiError(status))
  /\ TaskFrame

\* the fetch of refreshToken is answered: the new tokens are saved and
\* makeTasksRequest calls itself
RefreshResponds(answer) ==
  /\ task.pc = "refreshing"
  /\ task' =
       IF ~ answer.ok
         THEN Raised(task, "Failed to refresh token")
         ELSE makeTasksRequest(
                [task EXCEPT !.tokens = Tokens(answer.access_token, @.refreshToken),
                             !.refreshes = @ + 1],
                task.endpoint)
  /\ TaskFrame

TasksInit ==
  /\ NewRegistry
  /\ NewMemory(MaxCap)
  /\ NewClient

TasksNext ==
  \/ \E tokens \in StoredTokens \ { NoTokens } : Authenticate(tokens)
  \/ \E title \in Titles : ExecuteAddTask(title)
  \/ \E filter \in { "all", "pending" } : ExecuteListTasks(filter)
  \/ \E status \in Statuses : \E items \in ItemLists : Respond(status, items)
  \/ \E answer \in RefreshAnswers : RefreshResponds(answer)

TasksSpec == TasksInit /\ [][TasksNext]_vars

(***************************************************************************)
(* SessionSpec: the interactive loop with a caller that also resets the    *)
(* conversation: JarvisAgent.clearConversationHistory calls                *)
(* GeminiClient.clearHistory, which calls memory.clear() and restarts the  *)
(* chat on the emptied history.  The CLI's own "clear" command only clears *)
(* the console.                                                            *)
(***************************************************************************)
\* clearHistory()
clearHistory ==
  /\ variant = "memory"
  /\ Clear

SessionNext ==
  \/ \E line \in Lines : handleUserInput(line)
  \/ \E reply \in CliReplies : ModelReplies(reply)
  \/ \E error \in { ThrowsError("fetch failed") } : ModelFails(error)
  \/ DispatchCall
  \/ YieldText
  \/ clearHistory

SessionSpec == Init /\ [][SessionNext]_vars

(***************************************************************************)
(* The turn of gemini.ts.  executeTool gets the args as the model sent     *)
(* them and is not guarded in the loop: an exception leaves the loop for   *)
(* the catch block of generateResponse.                                    *)
(***************************************************************************)
\* generateResponse up to the first generateContent
RtStartTurn(userInput) ==
  /\ UNCHANGED <<isRunning, recent, modelConfig, task>>
  /\ variant = "roundtrip"
  /\ CanAccept
  /\ turns < MaxTurns
  /\ messages' = addToHistory(messages, "user", userInput, clock)
  /\ clock' = clock + 1
  /\ pc' = "awaiting_model_reply"
  /\ input' = userInput
  /\ pending' = <<>>
  /\ results' = <<>>
  /\ dispatched' = <<>>
  /\ finalText' = NoText
  /\ turns' = turns + 1
  /\ emitted' = <<>>
  /\ seen' = <<>>
  /\ before' = messages
  /\ modelCalls' = 1
  /\ replied' = <<>>
  /\ yielded' = <<>>
  /\ UNCHANGED <<maxMessages, appended, disk, variant>>
  /\ UNCHANGED registryVars

\* the first reply: function calls start the loop; a blank text is thrown
\* as an Error and ends in the catch block
RtModelReplies(reply) ==
  /\ UNCHANGED <<isRunning, recent, modelConfig, task>>
  /\ variant = "roundtrip"
  /\ pc = "awaiting_model_reply"
  /\ IF HasFunctionCalls(reply)
       THEN /\ pc' = "executing_tools"
            /\ pending' = reply.calls
            /\ emitted' = reply.calls
            /\ UNCHANGED <<messages, clock, finalText>>
       ELSE /\ pc' = "idle"
            /\ pending' = <<>>
            /\ emitted' = <<>>
            /\ IF reply.text = "" \/ Trim(reply.text) = ""
                 THEN /\ finalText' = TroubleText
                      /\ UNCHANGED <<messages, clock>>
                 ELSE /\ messages' = addToHistory(messages, "assistant", reply.text, clock)
                      /\ clock' = clock + 1
                      /\ finalText' = Trim(reply.text)
  /\ UNCHANGED <<input, results, dispatched, turns, maxMessages, appended>>
  /\ replied' = <<reply>>
  /\ UNCHANGED yielded
  /\ UNCHANGED <<disk, seen, before, variant, modelCalls>>
  /\ UNCHANGED registryVars

\* a generateContent raises, the first or the follow-up
RtModelFails(error) ==
  /\ UNCHANGED <<isRunning, recent, modelConfig, task>>
  /\ variant = "roundtrip"
  /\ pc \in { "awaiting_model_reply", "awaiting_followup_reply" }
  /\ pc' = "idle"
  /\ finalText' = TroubleText
  /\ UNCHANGED <<input, pending, results, dispatched, turns>>
  /\ UNCHANGED <<emitted, disk, seen, before, variant, modelCalls, replied,
          yielded>>
  /\ UNCHANGED memoryVars
  /\ UNCHANGED registryVars

\* one iteration of the loop; after the last call the follow-up
\* generateContent is made with the collected lines
RtDispatchCall ==
  /\ UNCHANGED <<isRunning, recent, modelConfig, task>>
  /\ variant = "roundtrip"
  /\ pc = "executing_tools"
  /\ pending # <<>>
  /\ LET name == NextCall(pending).name
         args == NextCall(pending).args
     IN \E effect \in EffectsFor(tools, name, args, disk) :
          LET obs == executeTool(tools, name, args, effect.outcome) IN
          /\ call' = obs
          /\ disk' = effect.world
          /\ seen' = Append(seen, disk)
          /\ dispatched' = Append(dispatched, obs)
          /\ pending' = Tail(pending)
          /\ IF obs.status = "raised"
               THEN /\ pc' = "idle"
                    /\ finalText' = TroubleText
                    /\ UNCHANGED <<results, modelCalls>>
               ELSE /\ results' = Append(results, ResponseLines(name, obs.result))
                    /\ UNCHANGED finalText
                    /\ IF Tail(pending) = <<>>
                         THEN pc' = "awaiting_followup_reply" /\ modelCalls' = modelCalls + 1
                         ELSE UNCHANGED <<pc, modelCalls>>
  /\ UNCHANGED <<input, turns, tools, regLog, query, emitted, before, variant, replied, yielded>>
  /\ UNCHANGED memoryVars

\* the follow-up reply: its text is the answer, whatever else it carries
FollowUpReplies(reply) ==
  /\ UNCHANGED <<isRunning, recent, modelConfig, task>>
  /\ variant = "roundtrip"
  /\ pc = "awaiting_followup_reply"
  /\ pc' = "idle"
  /\ messages' = addToHistory(messages, "assistant", reply.text, clock)
  /\ clock' = clock + 1
  /\ finalText' = Trim(reply.text)
  /\ replied' = Append(replied, reply)
  /\ UNCHANGED yielded
  /\ UNCHANGED <<input, pending, results, dispatched, turns, maxMessages, appended>>
  /\ UNCHANGED <<emitted, disk, seen, before, variant, modelCalls>>
  /\ UNCHANGED registryVars

(***************************************************************************)
(* ClientSpec: a session with either GeminiClient.                         *)
(***************************************************************************)
ClientInit ==
  \/ Init
  \/ /\ Session("roundtrip")
     /\ maxMessages = HistoryCap
     /\ \E history \in { <<>>, EarlierTurn } :
          messages = history /\ clock = Len(history)

ClientNext ==
  \/ \E userInput \in Inputs : StartTurn(userInput)
  \/ \E reply \in Replies : ModelReplies(reply)
  \/ \E error \in ModelErrors : ModelFails(error)
  \/ DispatchCall
  \/ \E userInput \in Inputs : RtStartTurn(userInput)
  \/ \E reply \in Replies : RtModelReplies(reply)
  \/ \E error \in ModelErrors : RtModelFails(error)
  \/ RtDispatchCall
  \/ \E reply \in FollowUps : FollowUpReplies(reply)

ClientSpec == ClientInit /\ [][ClientNext]_vars

(***************************************************************************)
(* Properties.                                                             *)
(***************************************************************************)
\* the names registered since construction or the last clearTools
DistinctNames(log) == { ToolDefs[log[i]].name : i \in DOMAIN log }
\* the instance most recently registered under a name
LatestRegistered(log, name) ==
  log[CHOOSE i \in DOMAIN log :
        /\ ToolDefs[log[i]].name = name
        /\ \A j \in DOMAIN log : ToolDefs[log[j]].name = name => j <= i]
\* the call was made, and the arguments pass validateParameters of a tool
Called == call.status # "none"
PassesValidation(tool, parameters) ==
  LET validation == validateParameters(ToolDefs[tool], parameters)
  IN ~validation.threw /\ validation.error = NULL

\* C1: after any sequence of registerTool calls getAvailableTools() holds
\* exactly one descriptor per distinct registered name (getToolCount() is the
\* number of distinct names), the descriptor of the instance registered last
\* under that name, and executeTool with valid arguments invokes execute of
\* that instance, once, and of no earlier one.
C1_LastWriteWins ==
  LET available == getAvailableTools(tools)
      names == DistinctNames(regLog)
  IN /\ Len(available) = Cardinality(names)
     /\ getToolCount(tools) = Cardinality(names)
     /\ \A name \in names :
          /\ Cardinality({ i \in DOMAIN available : available[i].name = name }) = 1
          /\ \A i \in DOMAIN available :
               available[i].name = name =>
                 available[i] = ToolDefs[LatestRegistered(regLog, name)]
     /\ \A i \in DOMAIN available : available[i].name \in names
     /\ (Called /\ call.name \in names
           /\ PassesValidation(LatestRegistered(regLog, call.name), call.parameters))
          => call.executed = << [tool |-> LatestRegistered(regLog, call.name),
                                 parameters |-> call.parameters] >>
     /\ \A k \in DOMAIN call.executed :
          call.executed[k].tool = LatestRegistered(regLog, call.name)

\* two instances registered under one name, and the later one executed
C1_Witness ==
  /\ regLog = <<1, 2>>
  /\ getToolCount(tools) = 1
  /\ call.executed = << [tool |-> 2, parameters |-> call.parameters] >>

\* C2: for every name that is not registered and any arguments, executeTool
\* returns {success:false, error:"Tool '<name>' not found"}, does not raise,
\* and invokes no tool's validateParameters or execute.
C2_NotFound ==
  (Called /\ call.name \notin DistinctNames(regLog)) =>
    /\ call.status = "returned"
    /\ call.result.success = FALSE
    /\ call.result.error = "Tool '" \o call.name \o "' not found"
    /\ call.validated = <<>>
    /\ call.executed = <<>>
    /\ (call.name = "nonexistent_tool" =>
          call.result.error = "Tool 'nonexistent_tool' not found")

\* a non-empty registry asked for a name it does not hold, without arguments
C2_Witness ==
  /\ regLog # <<>>
  /\ call.name = "read_file"
  /\ call.parameters = ArgsUndefined
  /\ call.status = "returned"
  /\ call.result.error = "Tool 'read_file' not found"

(***************************************************************************)
(* The declared constraints, stated on their own: a parameter violates     *)
(* when it is required and absent, or present with another runtime type    *)
(* than declared, or present and outside its enum.                         *)
(***************************************************************************)
Present(param, parameters) == param.name \in DOMAIN parameters.m
ValueOf(param, parameters) == parameters.m[param.name]
TypeOk(param, value) == value.kind = param.type
EnumOk(param, value) ==
  param.hasEnum =>
    /\ value.kind = "string"
    /\ value.v \in { param.enum[i] : i \in DOMAIN param.enum }
MissingRequired(param, parameters) == param.required /\ ~Present(param, parameters)
TypeMismatch(param, parameters) ==
  Present(param, parameters) /\ ~TypeOk(param, ValueOf(param, parameters))
EnumMismatch(param, parameters) ==
  Present(param, parameters) /\ ~EnumOk(param, ValueOf(param, parameters))
Violates(param, parameters) ==
  \/ MissingRequired(param, parameters)
  \/ TypeMismatch(param, parameters)
  \/ EnumMismatch(param, parameters)

MissingMessage(param) == "Missing required parameter: " \o param.name
TypeMessage(param) ==
  "Parameter " \o param.name \o
    (CASE param.type = "string" -> " must be a string"
       [] param.type = "number" -> " must be a number"
       [] param.type = "boolean" -> " must be a boolean"
       [] OTHER -> " must be an array")
EnumMessage(param) ==
  "Parameter " \o param.name \o " must be one of: " \o Join(param.enum, ", ")
\* the error strings that name a parameter
ErrorsNaming(param) == { MissingMessage(param), TypeMessage(param), EnumMessage(param) }

\* the tool a call on the current registry is dispatched to, its declared
\* parameters, and whether the arguments are a mapping
Target == getTool(tools, call.name)
TargetParams == ToolDefs[Target].parameters
Dispatched == Called /\ Target # NoTool /\ call.parameters.kind = "object"
Rejected == call.status = "returned" /\ call.result.success = FALSE /\ call.executed = <<>>
ExecutedOnce ==
  /\ call.status = "returned"
  /\ call.executed = << [tool |-> Target, parameters |-> call.parameters] >>
\* no parameter declared before position i violates
NoEarlier(i) == \A j \in 1..(i - 1) : ~Violates(TargetParams[j], call.parameters)

\* C3 as stated: for a registered tool with a required parameter x, arguments
\* without x are rejected with an error naming x and execute is not invoked;
\* with every required parameter present and of its declared type execute is
\* invoked exactly once with those arguments.
C3_Original ==
  Dispatched =>
    /\ \A i \in DOMAIN TargetParams :
         MissingRequired(TargetParams[i], call.parameters) =>
           Rejected /\ call.result.error \in ErrorsNaming(TargetParams[i])
    /\ (\A i \in DOMAIN TargetParams :
          TargetParams[i].required =>
            /\ Present(TargetParams[i], call.parameters)
            /\ TypeOk(TargetParams[i], ValueOf(TargetParams[i], call.parameters)))
         => ExecutedOnce

\* C3 amended: arguments without a required parameter x are rejected and
\* execute is not invoked; the error is "Missing required parameter: x" when
\* no parameter declared before x violates a constraint.  With every required
\* parameter present and every present declared parameter, required or
\* optional, of its declared type and within its enum, execute is invoked
\* exactly once with those arguments.
C3_RequiredEnforced ==
  Dispatched =>
    /\ \A i \in DOMAIN TargetParams :
         MissingRequired(TargetParams[i], call.parameters) =>
           /\ Rejected
           /\ NoEarlier(i) => call.result.error = MissingMessage(TargetParams[i])
    /\ (\A i \in DOMAIN TargetParams : ~Violates(TargetParams[i], call.parameters))
         => ExecutedOnce

\* search_music with its required query and its optional type, executed
C3_Witness ==
  /\ Dispatched
  /\ call.name = "search_music"
  /\ DOMAIN call.parameters.m = { "query", "type" }
  /\ ExecutedOnce

\* C4 as stated: for each declared type, a present argument of another runtime
\* type is rejected with an error naming that parameter and execute is invoked
\* zero times; execute is only reached after validateParameters returned no
\* error.
C4_Original ==
  Dispatched =>
    /\ \A i \in DOMAIN TargetParams :
         TypeMismatch(TargetParams[i], call.parameters) =>
           Rejected /\ call.result.error \in ErrorsNaming(TargetParams[i])
    /\ call.executed # <<>> =>
         \A i \in DOMAIN TargetParams : ~Violates(TargetParams[i], call.parameters)

\* C4 amended: a present argument of another runtime type than declared is
\* rejected and execute is invoked zero times; the error is the type error of
\* that parameter when no parameter declared before it violates a constraint
\* (otherwise the error is the earlier parameter's).  execute is only reached
\* after validateParameters returned no error.
C4_TypeEnforced ==
  Dispatched =>
    /\ \A i \in DOMAIN TargetParams :
         TypeMismatch(TargetParams[i], call.parameters) =>
           /\ Rejected
           /\ NoEarlier(i) => call.result.error = TypeMessage(TargetParams[i])
    /\ call.executed # <<>> =>
         /\ call.validated = << Target >>
         /\ \A i \in DOMAIN TargetParams : ~Violates(TargetParams[i], call.parameters)

\* a number declared, a string passed, the call rejected before execute
C4_Witness ==
  /\ Dispatched
  /\ call.name = "set_volume"
  /\ DOMAIN call.parameters.m = { "volume" }
  /\ call.parameters.m["volume"].kind = "string"
  /\ call.result.error = "Parameter volume must be a number"
  /\ call.executed = <<>>

\* C5: for a parameter declared with an enum, a present value outside the enum
\* is rejected (success=false, execute not invoked); a present member of the
\* declared type, and an absent optional enum parameter, are accepted: the
\* result is no error of that parameter, and execute is invoked when no other
\* parameter violates.
C5_EnumEnforced ==
  Dispatched =>
    \A i \in DOMAIN TargetParams :
      LET param == TargetParams[i]
          accepted ==
            \/ ~param.required /\ ~Present(param, call.parameters)
            \/ /\ Present(param, call.parameters)
               /\ TypeOk(param, ValueOf(param, call.parameters))
               /\ EnumOk(param, ValueOf(param, call.parameters))
      IN param.hasEnum =>
           /\ EnumMismatch(param, call.parameters) => Rejected
           /\ accepted =>
                /\ call.status = "returned"
                /\ call.result.error \notin ErrorsNaming(param)
                /\ (\A j \in DOMAIN TargetParams \ {i} :
                      ~Violates(TargetParams[j], call.parameters)) => ExecutedOnce

\* get_current_time with format "iso", a member of its enum, executed
C5_Witness ==
  /\ Dispatched
  /\ call.name = "get_current_time"
  /\ DOMAIN call.parameters.m = { "format" }
  /\ call.parameters.m["format"] = JsStr("iso")
  /\ ExecutedOnce

\* the first declared parameter that violates a constraint, and the one error
\* the order required, type, enum gives for it
Violating == { i \in DOMAIN TargetParams : Violates(TargetParams[i], call.parameters) }
FirstViolating == CHOOSE i \in Violating : \A j \in Violating : i <= j
FirstMessage(param) ==
  IF MissingRequired(param, call.parameters) THEN MissingMessage(param)
  ELSE IF TypeMismatch(param, call.parameters) THEN TypeMessage(param)
  ELSE EnumMessage(param)

\* C6: when the arguments violate several declared constraints at once,
\* validateParameters returns exactly one error, that of the first violating
\* parameter in declaration order, with the checks of one parameter ordered
\* required, type, enum; no later parameter is examined.
C6_FirstViolationOnly ==
  (Dispatched /\ Violating # {}) =>
    /\ Rejected
    /\ call.validated = << Target >>
    /\ call.result.error = FirstMessage(TargetParams[FirstViolating])
    /\ validateParameters(ToolDefs[Target], call.parameters).examined = FirstViolating
    /\ validateParameters(ToolDefs[Target], call.parameters).error = call.result.error

\* both parameters of search_music violate, the second one twice (type and
\* enum); the error is the first parameter's
C6_Witness ==
  /\ Dispatched
  /\ call.name = "search_music"
  /\ Violating = { 1, 2 }
  /\ TypeMismatch(TargetParams[2], call.parameters)
  /\ EnumMismatch(TargetParams[2], call.parameters)
  /\ call.result.error = "Parameter query must be a string"

\* C8: for every tool name and every arguments value a caller can pass (a
\* mapping, or an absent or non-mapping value), executeTool returns a
\* ToolResult and never raises; not-found, validation failure and a throwing
\* tool are success=false results.
C8_NeverRaises ==
  Called =>
    /\ call.status = "returned"
    /\ (Target = NoTool \/ call.executed = <<>> \/ call.outcome.kind = "throw")
         => call.result.success = FALSE

\* C9: after any sequence of registerTool / clearTools, getFunctionDefinitions()
\* has exactly one entry per registered tool, with the descriptor's name and
\* description, a properties object with exactly one key per declared
\* parameter carrying its type, description and enum (enum only when declared),
\* and a required list that is exactly the parameters marked required.
C9_SchemaMirrors ==
  LET defs == getFunctionDefinitions(tools)
      names == DistinctNames(regLog)
  IN /\ Len(defs) = Cardinality(names)
     /\ \A name \in names :
          /\ Cardinality({ i \in DOMAIN defs : defs[i].name = name }) = 1
          /\ \A i \in DOMAIN defs :
               defs[i].name = name =>
                 LET tool == ToolDefs[LatestRegistered(regLog, name)]
                     declared == { tool.parameters[k] : k \in DOMAIN tool.parameters }
                     schema == defs[i].parameters
                 IN /\ defs[i].description = tool.description
                    /\ schema.type = "object"
                    /\ DOMAIN schema.properties = { param.name : param \in declared }
                    /\ \A param \in declared :
                         /\ schema.properties[param.name].type = param.type
                         /\ schema.properties[param.name].description = param.description
                         /\ schema.properties[param.name].hasEnum = param.hasEnum
                         /\ param.hasEnum => schema.properties[param.name].enum = param.enum
                    /\ { schema.required[k] : k \in DOMAIN schema.required }
                         = { param.name : param \in { q \in declared : q.required } }
                    /\ Len(schema.required)
                         = Cardinality({ q \in declared : q.required })
     /\ \A i \in DOMAIN defs : defs[i].name \in names

\* search_music and get_current_time registered: search_music is exported
\* with its optional enum parameter left out of required
C9_Witness ==
  /\ regLog = <<4, 3>>
  /\ getFunctionDefinitions(tools)[1].parameters.required = << "query" >>
  /\ DOMAIN getFunctionDefinitions(tools)[1].parameters.properties = { "query", "type" }
  /\ getFunctionDefinitions(tools)[2].parameters.required = <<>>

TurnReturned == pc = "idle" /\ finalText # NoText
Threw(obs) == obs.outcome.kind = "throw"

\* C7 as stated: if a registered tool's execute raises on validated arguments,
\* executeTool does not raise and returns {success:false, error: the
\* exception's message, or "Unknown error" when there is none}, and the turn
\* still returns a non-empty final text.
C7_Original ==
  /\ \A k \in DOMAIN dispatched :
       Threw(dispatched[k]) =>
         /\ dispatched[k].status = "returned"
         /\ dispatched[k].result.success = FALSE
         /\ dispatched[k].result.error =
              (IF dispatched[k].outcome.isError
                 THEN dispatched[k].outcome.message ELSE "Unknown error")
  /\ (TurnReturned /\ \E k \in DOMAIN dispatched : Threw(dispatched[k]))
       => finalText # "" /\ Trim(finalText) # ""

\* C7 amended: if a registered tool's execute raises on validated arguments,
\* executeTool does not raise and returns {success:false, error}, where error
\* is the message of the raised Error (the empty string when its message is
\* empty) and "Unknown error occurred" when the raised value is not an Error;
\* the turn still returns a non-empty final text, stored as the model message.
C7_CrashContained ==
  /\ \A k \in DOMAIN dispatched :
       Threw(dispatched[k]) =>
         /\ dispatched[k].status = "returned"
         /\ dispatched[k].executed # <<>>
         /\ dispatched[k].result.success = FALSE
         /\ dispatched[k].result.error =
              (IF dispatched[k].outcome.isError
                 THEN dispatched[k].outcome.message ELSE "Unknown error occurred")
  /\ (TurnReturned /\ \E k \in DOMAIN dispatched : Threw(dispatched[k]))
       => /\ finalText # "" /\ Trim(finalText) # ""
          /\ messages[Len(messages)] = Message("model", finalText, clock - 1)

\* a turn of two calls whose first tool raised a value that is not an Error
C7_Witness ==
  /\ TurnReturned
  /\ Len(dispatched) = 2
  /\ Threw(dispatched[1])
  /\ ~dispatched[1].outcome.isError
  /\ dispatched[1].result.error = "Unknown error occurred"
  /\ finalText # ""

(***************************************************************************)
(* The dispatch loop.                                                      *)
(***************************************************************************)
\* the arguments executeTool receives for an emitted call
PassedArgs(functionCall) ==
  IF variant = "memory" THEN OrEmpty(functionCall.args) ELSE functionCall.args
\* the k-th dispatched call stored its content
Wrote(k) ==
  /\ dispatched[k].name = "write_file"
  /\ dispatched[k].executed # <<>>
  /\ dispatched[k].result.success
\* the file system the k-th dispatched call left
LeftBy(k) ==
  IF Wrote(k)
    THEN [seen[k] EXCEPT ![dispatched[k].parameters.m["filepath"].v] =
                           dispatched[k].parameters.m["content"].v]
    ELSE seen[k]

\* C11: within a turn the function calls of the reply are dispatched in the
\* order the model emitted them, one at a time: the k-th executeTool is for
\* the k-th emitted call, the calls not yet dispatched are the rest of the
\* reply, and each call starts on the file system the call before it left
\* (a read after a write sees the written content).
C11_EmissionOrder ==
  /\ Len(dispatched) <= Len(emitted)
  /\ Len(seen) = Len(dispatched)
  /\ \A k \in DOMAIN dispatched :
       /\ dispatched[k].name = emitted[k].name
       /\ dispatched[k].parameters = PassedArgs(emitted[k])
       /\ k > 1 => seen[k] = LeftBy(k - 1)
  /\ dispatched # <<>> => disk = LeftBy(Len(dispatched))
  /\ pc = "executing_tools" =>
       pending = SubSeq(emitted, Len(dispatched) + 1, Len(emitted))

\* a write followed by a read of the same file: the read returned what the
\* write stored, which was not there when the turn started
C11_Witness ==
  /\ Len(dispatched) = 2
  /\ Wrote(1)
  /\ seen[1]["iso"] # "track"
  /\ dispatched[2].name = "read_file"
  /\ dispatched[2].result.success
  /\ dispatched[2].result.data = DataStr("track")

\* the turn that has returned had function calls in its reply
ToolTurnReturned == pc = "idle" /\ emitted # <<>>
\* the section of the summary for the k-th dispatched call
SectionOf(k) ==
  IF variant = "memory" THEN Section(emitted[k].name, dispatched[k])
  ELSE ResponseLines(emitted[k].name, dispatched[k].result)

\* C12: for a turn whose reply contains k function calls, executeTool is
\* called exactly k times whatever the outcome of each call, a failing call
\* never aborts the later ones, and the summary has exactly k sections, one
\* per call, in emission order.
C12_EveryCallDispatched ==
  ToolTurnReturned =>
    /\ Len(dispatched) = Len(emitted)
    /\ Len(results) = Len(emitted)
    /\ \A k \in DOMAIN results : results[k] = SectionOf(k)
    /\ variant = "memory" => finalText = Join(results, "\n\n")

(***************************************************************************)
(* Turns and the memory.                                                   *)
(***************************************************************************)
\* the reply of the turn was exactly one get_current_time function call
OneTimeCall == Len(emitted) = 1 /\ emitted[1].name = "get_current_time"
\* the messages a completed turn appends: the user input, then the text
UserMessage == Message("user", input, clock - 2)
ModelMessage == Message("model", finalText, clock - 1)
\* the formatted time strings of the tool
TimeStrings == { Now.iso, Now.timestamp, Now.local }

\* C13 as stated: from any reachable memory state, a turn whose reply is
\* exactly one get_current_time function call executes exactly one tool call,
\* returns a final text containing the tool's formatted time string, and
\* leaves the memory with exactly 2 more messages than before the turn: the
\* user input followed by the model/tool-summary message.
C13_Original ==
  (pc = "idle" /\ OneTimeCall) =>
    /\ Len(dispatched) = 1
    /\ Len(dispatched[1].executed) = 1
    /\ \E t \in TimeStrings : finalText = "Current time: " \o t
    /\ Len(messages) = Len(before) + 2
    /\ messages = before \o << UserMessage, ModelMessage >>

\* C13 amended: from any reachable memory state, a turn whose reply is
\* exactly one get_current_time function call, with absent arguments or
\* arguments that pass validation, executes exactly one tool call, returns
\* the final text "Current time: " followed by the tool's formatted time
\* string, and leaves the memory holding the last maxMessages of the earlier
\* messages, the user input and the model/tool-summary message, in this
\* order: exactly 2 more messages than before when that many fit under the
\* cap.
C13_TimeTurn ==
  (pc = "idle" /\ OneTimeCall
     /\ PassesValidation(3, OrEmpty(emitted[1].args))) =>
    /\ Len(dispatched) = 1
    /\ Len(dispatched[1].executed) = 1
    /\ dispatched[1].result.success
    /\ dispatched[1].result.data.formatted \in TimeStrings
    /\ finalText = "Current time: " \o dispatched[1].result.data.formatted
    /\ messages = trimHistory(before \o << UserMessage, ModelMessage >>, maxMessages)
    /\ Len(before) + 2 <= maxMessages => Len(messages) = Len(before) + 2

\* the turn ran on a memory already at its cap of 2: the count stayed 2
C13_Witness ==
  /\ pc = "idle"
  /\ OneTimeCall
  /\ maxMessages = 2
  /\ Len(before) = 2
  /\ Len(messages) = 2
  /\ messages = << UserMessage, ModelMessage >>
  /\ finalText = "Current time: " \o Now.local

\* the turn has returned on a reply without function calls and with an
\* empty or whitespace-only text
BlankReplyReturned ==
  /\ pc = "idle"
  /\ Len(replied) = 1
  /\ replied[1].calls = <<>>
  /\ Trim(replied[1].text) = ""

\* C14: for a turn whose reply has no function calls and an empty or
\* whitespace-only text, generateResponse returns the fixed "please
\* rephrase" fallback string, and the memory records exactly one user
\* message and one model message for that turn.
C14_FallbackRecorded ==
  BlankReplyReturned =>
    /\ finalText = FallbackText
    /\ \E content \in { FallbackText, replied[1].text } :
         messages = trimHistory(before \o << Message("user", input, clock - 2),
                                             Message("model", content, clock - 1) >>,
                                maxMessages)

\* the turn has returned without a reply: the model call raised
ModelFailureReturned == pc = "idle" /\ turns > 0 /\ replied = <<>>

\* C15: if the call to the language model raises during a turn,
\* generateResponse and processRequest do not raise: they return one fixed
\* user-facing apology string, the same for every failure cause, the turn
\* completes, and the memory is left consistent with a completed turn (the
\* user message of the turn is its latest entry).
C15_FixedApology ==
  ModelFailureReturned =>
    /\ finalText # NoText
    /\ \A error \in ModelErrors : finalText = ApologyText(error)
    /\ messages # <<>>
    /\ messages[Len(messages)] = Message("user", input, clock - 1)

\* seq without its last element
Front(seq) == SubSeq(seq, 1, Len(seq) - 1)
\* a is the tail end of b
IsSuffix(a, b) == Len(a) <= Len(b) /\ a = SubSeq(b, Len(b) - Len(a) + 1, Len(b))
\* the turn is between its user message and its return
InTurn == pc \in { "awaiting_model_reply", "executing_tools", "awaiting_followup_reply" }
\* the latest memory entry is the user message of the turn, on top of what
\* the memory kept of the earlier messages
UserMessageLatest ==
  /\ messages # <<>>
  /\ messages[Len(messages)] = Message("user", input, clock - 1)
  /\ IsSuffix(Front(messages), before)
\* the latest memory entry is the answer of the turn, right after its user
\* message
AnswerLatest ==
  /\ messages # <<>>
  /\ messages[Len(messages)].role \in { "model", "assistant" }
  /\ messages[Len(messages)].timestamp = clock - 1
  /\ Len(messages) > 1 =>
       /\ messages[Len(messages) - 1] = Message("user", input, clock - 2)
       /\ IsSuffix(Front(Front(messages)), before)

\* C16: in every turn the user message is appended before the model is
\* invoked, and the model/tool-summary message only after the last tool call
\* of the turn has returned: at every intermediate point of a turn the
\* memory holds the user message as its latest entry and no model message of
\* the turn, and a returned turn left either that or the answer after it,
\* the answer only with every emitted call dispatched.
C16_AppendOrder ==
  /\ modelCalls > 0 => turns > 0
  /\ InTurn => modelCalls > 0 /\ UserMessageLatest
  /\ (pc = "idle" /\ turns > 0) =>
       \/ UserMessageLatest
       \/ AnswerLatest /\ pending = <<>> /\ Len(dispatched) = Len(emitted)

\* the loop is between the first and the second call of a reply
C16_Witness ==
  /\ pc = "executing_tools"
  /\ Len(emitted) = 2
  /\ Len(dispatched) = 1
  /\ before # <<>>
  /\ UserMessageLatest

\* C17: every turn follows awaiting_model_reply -> final_text or
\* awaiting_model_reply -> has_function_calls -> executing_tools ->
\* (awaiting_followup_reply ->) final_text: it makes at most two model calls,
\* the second only after the tool round, runs at most one round of tool
\* execution, executes each emitted function call exactly once, and never
\* executes the function calls of a follow-up reply.
C17_TurnShape ==
  /\ pc \in { "idle", "awaiting_model_reply", "executing_tools", "awaiting_followup_reply" }
  /\ modelCalls <= 2
  /\ Len(replied) <= modelCalls
  /\ pc = "awaiting_model_reply" => modelCalls = 1 /\ replied = <<>> /\ dispatched = <<>>
  /\ pc = "executing_tools" =>
       modelCalls = 1 /\ Len(replied) = 1 /\ emitted # <<>> /\ pending # <<>>
  /\ pc = "awaiting_followup_reply" =>
       variant = "roundtrip" /\ modelCalls = 2 /\ Len(replied) = 1
  /\ modelCalls = 2 => emitted # <<>> /\ Len(dispatched) = Len(emitted)
  /\ Len(dispatched) <= Len(emitted)
  /\ \A k \in DOMAIN dispatched : dispatched[k].name = emitted[k].name
  /\ ToolTurnReturned => Len(dispatched) = Len(emitted)

(***************************************************************************)
(* Streaming.                                                              *)
(***************************************************************************)
\* C18: processStreamingRequest never emits user-facing text for a turn
\* whose model reply contains function calls before every one of those
\* calls has resolved: it falls back to the non-streaming path and yields
\* the complete final text, the one processRequest returns for the same
\* reply and tool results.
C18_CallsBuffered ==
  (emitted # <<>> /\ yielded # <<>>) =>
    /\ pc = "idle"
    /\ Len(dispatched) = Len(emitted)
    /\ yielded = <<finalText>>
    /\ finalText = Join(results, "\n\n")

(***************************************************************************)
(* The interactive loop.                                                   *)
(***************************************************************************)
\* C19: in the interactive loop at most one turn is active at any time: the
\* next user input is read only after the processing of the previous one
\* (model call, all its tool calls, the memory append and the printing of
\* the answer) has completed, so the steps of two turns never interleave.
C19_OneTurnAtATime ==
  [][ turns' # turns =>
        /\ turns' = turns + 1
        /\ pc = "idle"
        /\ pending = <<>>
        /\ Len(dispatched) = Len(emitted)
        /\ turns > 0 => yielded = <<finalText>> /\ finalText # NoText
        /\ isRunning ]_vars

\* the second request of a session is in its tool round, the answer of the
\* first one is in the memory under its user message
C19_Witness ==
  /\ turns = 2
  /\ pc = "executing_tools"
  /\ Len(messages) = 2
  /\ messages[1].role = "model"
  /\ messages[2] = Message("user", input, clock - 1)

(***************************************************************************)
(* The rendering of a ToolResult.                                          *)
(***************************************************************************)
\* the line for a successful result: the tool's own rendering of its data,
\* else result.message, else the generic line
SuccessLine(name, toolResult) ==
  IF name = "get_current_time" /\ toolResult.data.kind = "object"
    THEN "Current time: " \o toolResult.data.formatted
  ELSE IF name = "read_file" /\ toolResult.data.kind = "string"
    THEN "File content:\n\n" \o toolResult.data.v
  ELSE IF TruthyText(toolResult.message) THEN toolResult.message
  ELSE "Executed " \o name \o " successfully"
\* the line for a failed result
ErrorLine(toolResult) == "Error: " \o Shown(toolResult.error)

\* C20: for every function call whose ToolResult has success=true, with or
\* without a data payload, the call's section of the summary is the
\* tool-specific rendering or the rendering of result.message (a generic
\* success line when there is no message), never an error line; an error
\* line appears only for a ToolResult with success=false.
C20_SuccessRendered ==
  variant = "memory" =>
    \A k \in DOMAIN results :
      dispatched[k].status = "returned" =>
        IF dispatched[k].result.success
          THEN results[k] = SuccessLine(dispatched[k].name, dispatched[k].result)
          ELSE results[k] = ErrorLine(dispatched[k].result)

\* the latest getRecentMessages call was made with the number n
AskedRecent(n) == recent.made /\ recent.count = Count(n)

\* the last k elements of seq, k at most its length
LastOf(seq, k) == SubSeq(seq, Len(seq) - k + 1, Len(seq))

\* C21: for every n >= 0 and every memory state, getRecentMessages(n)
\* returns exactly the last min(n, length) stored messages in append order
\* (the empty sequence for n = 0), and leaves the memory unchanged.
C21_RecentWindow ==
  \A n \in 0..(MaxCap + 1) :
    AskedRecent(n) =>
      LET len == Len(recent.stored)
          k == IF n < len THEN n ELSE len
      IN /\ recent.returned = LastOf(recent.stored, k)
         /\ recent.after = recent.stored

\* the turn has returned after the model replied to it
RepliedTurnReturned == pc = "idle" /\ turns > 0 /\ replied # <<>>

\* C22: for every turn that returns a final text (plain model text, tool
\* summary, or fallback), the content of the model message appended to the
\* memory in that turn is identical to the text returned to the caller.
C22_StoredIsReturned ==
  RepliedTurnReturned =>
    /\ messages # <<>>
    /\ messages[Len(messages)].role \in { "model", "assistant" }
    /\ messages[Len(messages)].timestamp = clock - 1
    /\ messages[Len(messages)].content = finalText

\* getStats() of a memory without messages
NoMessages == [messageCount |-> 0, userMessages |-> 0, modelMessages |-> 0]

\* the step is a clear(): the memory variables change as clear() changes
\* them and nothing else does
ClearStep ==
  /\ messages' = <<>>
  /\ appended' = <<>>
  /\ UNCHANGED <<maxMessages, clock>>
  /\ UNCHANGED registryVars
  /\ UNCHANGED turnVars

\* the step appends one message to the memory and trims it: what is stored
\* afterwards is the tail end of the old messages followed by the new one
AppendStep ==
  /\ messages' # <<>>
  /\ messages'[Len(messages')].timestamp = clock
  /\ clock' = clock + 1
  /\ IsSuffix(messages', Append(messages, messages'[Len(messages')]))

\* C23: clear() leaves the memory with zero messages (message count, user
\* count and model count all 0) and later appends start from the empty
\* sequence; the memory is emptied only by an explicit clear (clearHistory /
\* clearConversationHistory) and never as a side effect of a turn, an error
\* or trimming, which removes only the overflow at the oldest end.
C23_OnlyClearEmpties ==
  [][ /\ clearHistory => /\ messages' = <<>>
                         /\ getStats(messages') = NoMessages
      /\ (messages # <<>> /\ messages' = <<>>) => ClearStep
      /\ (messages' # messages /\ messages' # <<>>) => AppendStep
      /\ (messages = <<>> /\ messages' # <<>>) => Len(messages') = 1 ]_vars

\* a turn was stored, the history was cleared, and the next turn's user
\* message is the only message of the memory
C23_Witness ==
  /\ maxMessages = 2
  /\ Len(messages) = 1
  /\ messages[1].role = "user"
  /\ messages[1].timestamp > 1
  /\ pc = "awaiting_model_reply"

\* the agent's constructor has returned: the session is open
SessionOpen == pc # "constructing"

\* C24: at every point of a session the tool schema the model client was
\* configured with equals getFunctionDefinitions() of the current registry:
\* every tool registered (or overwritten) in the registry is reflected in
\* the schema the model sees without any separate registration step.
C24_SchemaInSync ==
  SessionOpen =>
    /\ modelConfig.functionDeclarations = getFunctionDefinitions(tools)
    /\ modelConfig.tools = (getToolCount(tools) > 0)
    /\ \A i \in DOMAIN regLog :
         \E j \in DOMAIN modelConfig.functionDeclarations :
           modelConfig.functionDeclarations[j].name = ToolDefs[regLog[i]].name

\* a turn dispatched a call to a Spotify tool, registered last by the
\* constructor, and returned
C24_Witness ==
  /\ pc = "idle"
  /\ modelConfig.tools
  /\ Len(modelConfig.functionDeclarations) = Len(AgentIds)
  /\ \E k \in DOMAIN dispatched :
       /\ dispatched[k].name = "set_volume"
       /\ dispatched[k].executed # <<>>

\* the step is a registerTool: one instance is set under its name
RegisterStep ==
  \E tool \in ToolIds : tools' = MapSet(tools, tool) /\ regLog' = Append(regLog, tool)

\* the step is a clearTools
ClearToolsStep == tools' = <<>> /\ regLog' = <<>>

\* the step is a lookup or listing, or an executeTool
ReadStep(op) == query'.op = op /\ (query.op # op \/ query.arg # query'.arg)
ExecuteStep == call' # call /\ call' # NoCall

\* the positions of the definitions of a category in a listing, and the
\* k-th of them
InCategory(list, category) == { i \in DOMAIN list : list[i].category = category }
Nth(positions, k) ==
  CHOOSE i \in positions : Cardinality({ j \in positions : j < i }) = k - 1

\* C25: getTool, getAvailableTools, getToolsByCategory,
\* getFunctionDefinitions, getToolCount and executeTool (whatever its
\* outcome: not found, validation failure, tool success, tool failure, tool
\* throw) leave the registry's name-to-tool mapping unchanged; only
\* registerTool and clearTools change it, and getToolsByCategory(c) is
\* exactly the sub-sequence of getAvailableTools() whose category equals c.
C25_ReadsLeaveMapping ==
  [][ /\ tools' # tools => RegisterStep \/ ClearToolsStep
      /\ \A q \in Queries : ReadStep(q.op) => tools' = tools
      /\ ExecuteStep => tools' = tools
      /\ ReadStep("getToolsByCategory") =>
           LET available == getAvailableTools(tools')
               positions == InCategory(available, query'.arg)
           IN /\ Len(query'.list) = Cardinality(positions)
              /\ \A k \in DOMAIN query'.list :
                   query'.list[k] = available[Nth(positions, k)] ]_vars

\* two tools of different categories are registered and the category of
\* the second is listed: its definition alone
C25_Witness ==
  /\ query.op = "getToolsByCategory"
  /\ Len(tools) = 2
  /\ ToolDefs[tools[1]].category # query.arg
  /\ query.list = << ToolDefs[tools[2]] >>

\* the reply's own text as a final answer: trimmed, or replaced when blank
TextAnswer(text) ==
  IF Trim(text) # "" THEN Trim(text)
  ELSE IF variant = "memory" THEN FallbackText ELSE TroubleText

\* the final answer of a turn that went through the registry: the summary
\* of the dispatched calls, or the follow-up reply (the fixed text when a
\* call raised)
ToolAnswers ==
  IF variant = "memory"
    THEN { Join([k \in DOMAIN dispatched |-> SectionOf(k)], "\n\n") }
    ELSE { TroubleText } \cup { Trim(replied[k].text) : k \in DOMAIN replied \ {1} }

\* C26: a model reply is treated as the final answer if and only if its
\* function-call list is empty: whenever the reply contains at least one
\* function call, the calls are dispatched through the registry and the
\* reply's text is not used as the final answer, and no other condition
\* decides between the two paths.
C26_CallsDecide ==
  RepliedTurnReturned =>
    IF replied[1].calls = <<>>
      THEN /\ dispatched = <<>>
           /\ finalText = TextAnswer(replied[1].text)
      ELSE /\ dispatched # <<>>
           /\ \A k \in DOMAIN dispatched :
                /\ dispatched[k].name = replied[1].calls[k].name
                /\ dispatched[k].parameters = PassedArgs(replied[1].calls[k])
           /\ finalText \in ToolAnswers

\* a reply carried both a text and a function call: the call was dispatched
\* and the answer is the tool summary
C26_Witness ==
  /\ RepliedTurnReturned
  /\ replied[1] \in MixedReplies
  /\ Len(dispatched) = 1
  /\ dispatched[1].name = "get_current_time"
  /\ finalText = "Current time: " \o Now.local

\* the k-th dispatched call came back from executeTool as a failure
FailedCall(k) == dispatched[k].status = "returned" /\ ~ dispatched[k].result.success

\* C27: every ToolResult returned by executeTool with success = false
\* carries a defined error string, whether the failure was produced by the
\* registry (not found, validation, caught exception) or returned by the
\* tool itself, so the dispatch loop never renders a failure with an
\* undefined error.
C27_FailuresCarryError ==
  \A k \in DOMAIN dispatched :
    FailedCall(k) =>
      /\ dispatched[k].result.error \notin { UNDEFINED, NULL }
      /\ k \in DOMAIN results =>
           /\ results[k] = "Error: " \o dispatched[k].result.error
           /\ results[k] # "Error: " \o Shown(UNDEFINED)

\* a turn of two failed calls has returned: one failed in the registry
\* (execute never invoked), the other is a failure the tool returned
C27_Witness ==
  /\ pc = "idle"
  /\ Len(dispatched) = 2
  /\ FailedCall(1) /\ dispatched[1].executed = <<>>
  /\ FailedCall(2) /\ dispatched[2].outcome.kind = "return"

\* C28: the authenticated-request helper of the Google Tasks tools retries
\* a request at most once after a 401: for any sequence of server responses
\* (including a server that answers 401 to every request while token
\* refresh keeps succeeding) makeTasksRequest terminates after at most one
\* refresh and one retry, returning data or raising an error that the tool
\* turns into a failed ToolResult.
C28_RetryOnce ==
  /\ task.refreshes <= 1
  /\ Len(task.statuses) <= 2
  /\ Len(task.statuses) = 2 => task.pc \notin { "fetching", "refreshing" }
  /\ task.pc = "returned" /\ ~ task.result.success =>
       task.result.error \notin { UNDEFINED, NULL }

\* C29: the text a turn returns is never empty and never whitespace only,
\* whatever path produced it: plain text, empty reply, tool summary,
\* follow-up reply after the tools ran, or a failing model.
C29_NeverBlank ==
  pc = "idle" /\ turns > 0 => finalText # NoText /\ Trim(finalText) # ""

\* getStats() counts every stored message once, as a user or a model message
StatsAddUp ==
  /\ getStats(messages).messageCount = Len(messages)
  /\ getStats(messages).messageCount =
       getStats(messages).userMessages + getStats(messages).modelMessages

\* C30: for every cap a memory can be constructed with, 0 included, the
\* number of stored messages never exceeds the cap, and getStats() counts
\* every stored message once: messageCount = userMessages + modelMessages
\* = number of stored messages.
C30_WithinCap ==
  /\ Len(messages) <= maxMessages
  /\ StatsAddUp

====
